---- MODULE Spec2Model ----
(***************************************************************************)
(* Model of the data-treatment interpreter's execution engine              *)
(* (internal/engine: Execute, executeSet, executeIteration, ExecuteAll),   *)
(* of the transformers it dispatches to, and of the JSON path operations   *)
(* (gjson.GetBytes, sjson.SetBytes, sjson.DeleteBytes) it calls.           *)
(*                                                                         *)
(* Go strings (paths, arguments, field values) are sequences of            *)
(* one-character strings, so that strings.Index, slicing, strings.Replace, *)
(* strings.Split and strings.ToUpper are computed character by character.  *)
(* A JSON document is a tagged tree; an object keeps its members in        *)
(* document order, as the bytes do.  Numbers are counted in hundredths.    *)
(***************************************************************************)
EXTENDS Integers, Sequences, FiniteSets, TLC

(***************************************************************************)
(* Bounds of the model.                                                    *)
(***************************************************************************)
MaxProgs == 2
MaxLen == 2

(***************************************************************************)
(* Go string primitives.                                                   *)
(***************************************************************************)
Lower == <<"a", "b", "c", "d", "e", "f", "g", "h", "i", "j", "k", "l", "m",
           "n", "o", "p", "q", "r", "s", "t", "u", "v", "w", "x", "y", "z">>
Upper == <<"A", "B", "C", "D", "E", "F", "G", "H", "I", "J", "K", "L", "M",
           "N", "O", "P", "Q", "R", "S", "T", "U", "V", "W", "X", "Y", "Z">>
Digits == <<"0", "1", "2", "3", "4", "5", "6", "7", "8", "9">>

Range(s) == {s[i] : i \in 1..Len(s)}

\* strings.Index(s, c) for a one-character c: 0-based, -1 when absent.
IndexOf(s, c) ==
    IF \E i \in 1..Len(s) : s[i] = c
    THEN (CHOOSE i \in 1..Len(s) : s[i] = c /\ \A j \in 1..(i-1) : s[j] # c) - 1
    ELSE -1

\* strings.Contains(s, c)
Contains(s, c) == IndexOf(s, c) >= 0

\* strings.HasPrefix(s, c) for a one-character c
HasPrefix(s, c) == Len(s) >= 1 /\ s[1] = c

\* s[lo:hi] with 0-based Go bounds (callers keep 0 <= lo <= hi <= len(s)).
Slice(s, lo, hi) == SubSeq(s, lo + 1, hi)

\* strconv.Itoa for n >= 0
RECURSIVE Itoa(_)
Itoa(n) == IF n < 10 THEN <<Digits[n + 1]>>
           ELSE Itoa(n \div 10) \o <<Digits[(n % 10) + 1]>>

\* strings.Replace(s, "#", new, 1): the first occurrence only.
ReplaceFirst(s, c, new) ==
    LET i == IndexOf(s, c) IN
    IF i < 0 THEN s
    ELSE Slice(s, 0, i) \o new \o Slice(s, i + 1, Len(s))

UpperChar(c) ==
    IF \E i \in 1..Len(Lower) : Lower[i] = c
    THEN Upper[CHOOSE i \in 1..Len(Lower) : Lower[i] = c]
    ELSE c

\* strings.ToUpper
ToUpper(s) == [i \in 1..Len(s) |-> UpperChar(s[i])]

\* strings.Trim(s, "'")
RECURSIVE TrimQuotes(_)
TrimQuotes(s) ==
    IF Len(s) > 0 /\ s[1] = "'" THEN TrimQuotes(Tail(s))
    ELSE IF Len(s) > 0 /\ s[Len(s)] = "'" THEN TrimQuotes(SubSeq(s, 1, Len(s) - 1))
    ELSE s

\* 0-based index of the first occurrence of sep (non-empty) in s, or -1.
IndexOfSeq(s, sep) ==
    LET hits == {i \in 1..(Len(s) - Len(sep) + 1) : SubSeq(s, i, i + Len(sep) - 1) = sep}
    IN IF hits = {} THEN -1
       ELSE (CHOOSE i \in hits : \A j \in hits : i <= j) - 1

\* strings.Split(s, sep): a sequence of strings.
RECURSIVE SplitStr(_, _)
SplitStr(s, sep) ==
    IF Len(sep) = 0 THEN [i \in 1..Len(s) |-> <<s[i]>>]
    ELSE LET i == IndexOfSeq(s, sep) IN
         IF i < 0 THEN <<s>>
         ELSE <<Slice(s, 0, i)>> \o SplitStr(Slice(s, i + Len(sep), Len(s)), sep)

\* strings.Join(values, sep)
RECURSIVE JoinStr(_, _)
JoinStr(values, sep) ==
    IF Len(values) = 0 THEN <<>>
    ELSE IF Len(values) = 1 THEN values[1]
    ELSE values[1] \o sep \o JoinStr(Tail(values), sep)

\* The segments of a dot-separated path.
SplitPath(p) == SplitStr(p, <<".">>)

\* A path segment that is an array index (all digits).
IsNumeric(seg) == Len(seg) > 0 /\ \A i \in 1..Len(seg) : seg[i] \in Range(Digits)

RECURSIVE Atoi(_)
Atoi(seg) == IF Len(seg) = 0 THEN 0
             ELSE 10 * Atoi(SubSeq(seg, 1, Len(seg) - 1))
                  + ((CHOOSE d \in 1..10 : Digits[d] = seg[Len(seg)]) - 1)

(***************************************************************************)
(* JSON values.                                                            *)
(***************************************************************************)
Absent == [t |-> "absent"]
Null == [t |-> "null"]
Str(s) == [t |-> "str", v |-> s]
Num(n) == [t |-> "num", v |-> n]
Bool(b) == [t |-> "bool", v |-> b]
Arr(elems) == [t |-> "arr", v |-> elems]
Obj(members) == [t |-> "obj", v |-> members]
Member(k, x) == [k |-> k, v |-> x]

Exists(x) == x.t # "absent"
IsArray(x) == x.t = "arr"

KeyIndex(members, k) ==
    IF \E i \in 1..Len(members) : members[i].k = k
    THEN CHOOSE i \in 1..Len(members) :
            members[i].k = k /\ \A j \in 1..(i-1) : members[j].k # k
    ELSE 0

\* A number counted in hundredths, printed the shortest way (60, 20.3, 1.72).
FormatNum(n) ==
    LET whole == Itoa(n \div 100)
        frac == n % 100
    IN IF frac = 0 THEN whole
       ELSE IF frac % 10 = 0 THEN whole \o <<".", Digits[(frac \div 10) + 1]>>
       ELSE whole \o <<".", Digits[(frac \div 10) + 1], Digits[(frac % 10) + 1]>>

\* The bytes of a value (compact JSON).
RECURSIVE Raw(_)
RECURSIVE RawElems(_)
RECURSIVE RawMembers(_)
Raw(x) ==
    CASE x.t = "str" -> <<"\"">> \o x.v \o <<"\"">>
      [] x.t = "num" -> FormatNum(x.v)
      [] x.t = "bool" -> IF x.v THEN <<"t", "r", "u", "e">> ELSE <<"f", "a", "l", "s", "e">>
      [] x.t = "null" -> <<"n", "u", "l", "l">>
      [] x.t = "arr" -> <<"[">> \o RawElems(x.v) \o <<"]">>
      [] x.t = "obj" -> <<"{">> \o RawMembers(x.v) \o <<"}">>
      [] OTHER -> <<>>
RawElems(elems) ==
    IF Len(elems) = 0 THEN <<>>
    ELSE IF Len(elems) = 1 THEN Raw(elems[1])
    ELSE Raw(elems[1]) \o <<",">> \o RawElems(Tail(elems))
RawMembers(members) ==
    IF Len(members) = 0 THEN <<>>
    ELSE LET m == <<"\"">> \o members[1].k \o <<"\"", ":">> \o Raw(members[1].v) IN
         IF Len(members) = 1 THEN m
         ELSE m \o <<",">> \o RawMembers(Tail(members))

\* gjson Result.String()
String(x) ==
    CASE x.t = "str" -> x.v
      [] x.t = "num" -> FormatNum(x.v)
      [] x.t = "null" -> <<>>
      [] x.t = "absent" -> <<>>
      [] OTHER -> Raw(x)

(***************************************************************************)
(* gjson.GetBytes(json, path).                                             *)
(***************************************************************************)
RECURSIVE GetPath(_, _)
RECURSIVE Collect(_, _)
GetPath(x, segs) ==
    IF Len(segs) = 0 THEN x
    ELSE LET s == segs[1]
             rest == Tail(segs)
         IN CASE x.t = "obj" ->
                   LET i == KeyIndex(x.v, s) IN
                   IF i = 0 THEN Absent ELSE GetPath(x.v[i].v, rest)
              [] x.t = "arr" ->
                   IF s = <<"#">>
                   THEN IF Len(rest) = 0 THEN Num(100 * Len(x.v))
                        ELSE Arr(Collect(x.v, rest))
                   ELSE IF IsNumeric(s) /\ Atoi(s) < Len(x.v)
                        THEN GetPath(x.v[Atoi(s) + 1], rest)
                        ELSE Absent
              [] OTHER -> Absent
\* "arr.#.rest": the values found at rest in the elements, in order.
Collect(elems, rest) ==
    IF Len(elems) = 0 THEN <<>>
    ELSE LET r == GetPath(elems[1], rest) IN
         (IF Exists(r) THEN <<r>> ELSE <<>>) \o Collect(Tail(elems), rest)

Get(json, path) == GetPath(json, SplitPath(path))

(***************************************************************************)
(* sjson.SetBytes(json, path, value) and sjson.DeleteBytes(json, path).    *)
(* Both return the new document or an error.                               *)
(***************************************************************************)
Nil == [t |-> "nil"]
Failed == [t |-> "error"]

Nulls(n) == [i \in 1..n |-> Null]

\* A path with an array-access character is not a simple path.
IsComplexPath(path) == Contains(path, "#")

\* The value built for the missing tail of a path.
RECURSIVE Build(_, _)
Build(segs, val) ==
    IF Len(segs) = 0 THEN val
    ELSE IF IsNumeric(segs[1])
         THEN Arr(Nulls(Atoi(segs[1])) \o <<Build(Tail(segs), val)>>)
         ELSE Obj(<<Member(segs[1], Build(Tail(segs), val))>>)

\* Where segment s is found in container x: a member or element index, else 0.
Found(x, s) ==
    CASE x.t = "obj" -> KeyIndex(x.v, s)
      [] x.t = "arr" -> IF IsNumeric(s) /\ Atoi(s) < Len(x.v) THEN Atoi(s) + 1 ELSE 0
      [] OTHER -> 0

RECURSIVE SetRec(_, _, _)
SetRec(x, segs, val) ==
    LET s == segs[1]
        rest == Tail(segs)
        i == Found(x, s)
    IN IF i > 0
       THEN LET old == IF x.t = "obj" THEN x.v[i].v ELSE x.v[i]
                new == IF Len(rest) = 0 THEN val ELSE SetRec(old, rest, val)
            IN IF new = Failed THEN Failed
               ELSE IF x.t = "obj"
                    THEN Obj([x.v EXCEPT ![i] = Member(s, new)])
                    ELSE Arr([x.v EXCEPT ![i] = new])
       ELSE CASE x.t = "obj" -> Obj(Append(x.v, Member(s, Build(rest, val))))
              [] x.t = "arr" ->
                   IF ~IsNumeric(s) THEN Failed
                   ELSE Arr(x.v \o Nulls(Atoi(s) - Len(x.v)) \o <<Build(rest, val)>>)
              [] OTHER -> Build(segs, val)

\* A set through "arr.#.rest" in a library version that supports it: every
\* element in which rest exists gets the value.
SetMatches(x, segs, val) ==
    LET h == IndexOf(segs, <<"#">>)
        pre == Slice(segs, 0, h)
        rest == Slice(segs, h + 1, Len(segs))
        arr == GetPath(x, pre)
        new == [i \in 1..Len(arr.v) |->
                  IF Exists(GetPath(arr.v[i], rest)) THEN SetRec(arr.v[i], rest, val)
                  ELSE arr.v[i]]
    IN IF Len(pre) = 0 THEN Arr(new) ELSE SetRec(x, pre, Arr(new))

SetComplex(json, path, val, matching) ==
    LET segs == SplitPath(path)
        h == IndexOf(segs, <<"#">>)
    IN IF ~matching THEN Failed
       ELSE IF h < 0 \/ h = Len(segs) - 1 \/ ~Exists(Get(json, path))
               \/ Contains(Slice(segs, h + 1, Len(segs)), <<"#">>)
            THEN json
            ELSE SetMatches(json, segs, val)

Set(json, path, val, matching) ==
    IF Len(path) = 0 THEN Failed
    ELSE IF IsComplexPath(path) THEN SetComplex(json, path, val, matching)
    ELSE SetRec(json, SplitPath(path), val)

RemoveAt(seq, i) == SubSeq(seq, 1, i - 1) \o SubSeq(seq, i + 1, Len(seq))

RECURSIVE DeleteRec(_, _)
DeleteRec(x, segs) ==
    LET s == segs[1]
        rest == Tail(segs)
        i == Found(x, s)
    IN IF i = 0 THEN x
       ELSE IF Len(rest) = 0
            THEN [x EXCEPT !.v = RemoveAt(x.v, i)]
            ELSE IF x.t = "obj"
                 THEN Obj([x.v EXCEPT ![i] = Member(s, DeleteRec(x.v[i].v, rest))])
                 ELSE Arr([x.v EXCEPT ![i] = DeleteRec(x.v[i], rest)])

Delete(json, path) ==
    IF Len(path) = 0 \/ IsComplexPath(path) THEN Failed
    ELSE DeleteRec(json, SplitPath(path))

(***************************************************************************)
(* Transformers: Transform() of Config{Args, Json}.  A result is the       *)
(* ordered Results and an error ("" is Go's nil error).                    *)
(***************************************************************************)
NoError == ""
Results(values) == [res |-> values, err |-> NoError]
TransformError(e) == [res |-> <<>>, err |-> e]

UppercaseTransform(args, json) ==
    IF Len(args) # 1 THEN TransformError("uppercase requires exactly one argument")
    ELSE LET value == Get(json, args[1]) IN
         IF ~Exists(value) THEN TransformError("argument not found in JSON")
         ELSE Results(<<Str(ToUpper(String(value)))>>)

\* A concatenate that is content with a separator and one field.
ConcatenateTwo(args, json) ==
    IF Len(args) < 2 THEN TransformError("concatenate requires at least three arguments")
    ELSE LET separator == TrimQuotes(args[1])
             fields == Tail(args)
         IN IF \E i \in 1..Len(fields) : ~Exists(Get(json, fields[i]))
            THEN TransformError("argument not found in JSON")
            ELSE Results(<<Str(JoinStr([i \in 1..Len(fields) |-> String(Get(json, fields[i]))],
                                       separator))>>)

ConcatenateTransform(args, json) ==
    IF Len(args) < 3 THEN TransformError("concatenate requires at least three arguments")
    ELSE LET separator == TrimQuotes(args[1])
             fields == Tail(args)
         IN IF \E i \in 1..Len(fields) : ~Exists(Get(json, fields[i]))
            THEN TransformError("argument not found in JSON")
            ELSE Results(<<Str(JoinStr([i \in 1..Len(fields) |-> String(Get(json, fields[i]))],
                                       separator))>>)

\* A split on the separator as written, quotes included.
SplitUntrimmed(args, json) ==
    IF Len(args) # 2 THEN TransformError("split requires exactly two arguments")
    ELSE LET value == Get(json, args[1]) IN
         IF ~Exists(value) THEN TransformError("argument not found in JSON")
         ELSE LET splitValue == SplitStr(String(value), args[2]) IN
              Results([i \in 1..Len(splitValue) |-> Str(splitValue[i])])

SplitTransform(args, json) ==
    IF Len(args) # 2 THEN TransformError("split requires exactly two arguments")
    ELSE LET value == Get(json, args[1]) IN
         IF ~Exists(value) THEN TransformError("argument not found in JSON")
         ELSE LET splitValue == SplitStr(String(value), TrimQuotes(args[2])) IN
              Results([i \in 1..Len(splitValue) |-> Str(splitValue[i])])

\* weight / height^2 rounded to one decimal (math.Round: half away from zero),
\* on numbers counted in hundredths; the result is in hundredths too.
RoundedBMI(weight, height) ==
    10 * ((2 * 1000 * weight + height * height) \div (2 * height * height))

\* A bmi that judges the quotient before it is rounded.
BMIUnrounded(args, json) ==
    IF Len(args) # 2 THEN TransformError("bmi requires exactly two arguments")
    ELSE LET weightVar == Get(json, args[1])
             heightVar == Get(json, args[2])
         IN IF ~Exists(weightVar) \/ ~Exists(heightVar)
            THEN TransformError("weight or height not found in JSON")
            ELSE IF weightVar.t # "num" \/ heightVar.t # "num"
            THEN TransformError("weight and height must be numbers")
            ELSE LET bmi == RoundedBMI(weightVar.v, heightVar.v) IN
                 Results(<<Num(bmi),
                           Bool(/\ 10000 * weightVar.v >= 1850 * heightVar.v * heightVar.v
                                /\ 10000 * weightVar.v <= 2490 * heightVar.v * heightVar.v)>>)

BMITransform(args, json) ==
    IF Len(args) # 2 THEN TransformError("bmi requires exactly two arguments")
    ELSE LET weightVar == Get(json, args[1])
             heightVar == Get(json, args[2])
         IN IF ~Exists(weightVar) \/ ~Exists(heightVar)
            THEN TransformError("weight or height not found in JSON")
            ELSE IF weightVar.t # "num" \/ heightVar.t # "num"
            THEN TransformError("weight and height must be numbers")
            ELSE LET bmi == RoundedBMI(weightVar.v, heightVar.v) IN
                 Results(<<Num(bmi), Bool(bmi >= 1850 /\ bmi <= 2490)>>)

(***************************************************************************)
(* The engine.                                                             *)
(***************************************************************************)
\* NewEngine: the registered transformer names.
Registry == {"uppercase", "concatenate", "bmi", "split"}

Transform(name, args, json) ==
    CASE name = "uppercase" -> UppercaseTransform(args, json)
      [] name = "concatenate" -> ConcatenateTransform(args, json)
      [] name = "bmi" -> BMITransform(args, json)
      [] name = "split" -> SplitTransform(args, json)

\* One invocation of a transformer: the Args it was constructed with and
\* what Transform() returned.
Invocation(args, r) == [args |-> args, res |-> r.res, err |-> r.err]

\* What a call of Execute hands back: st is "ok" (nil error), "err" (an
\* error value) or "panic" (a run-time panic, nothing is returned); calls
\* lists the transformer invocations made, in order.
Outcome(st, doc, err, mode, calls) ==
    [st |-> st, doc |-> doc, err |-> err, mode |-> mode, calls |-> calls]

\* The loop "for i, value := range transformedValues { SetBytes(...) }":
\* paths[j] is the target of values[j]; Failed when a write fails,
\* a panic when there are more values than paths.
\* The writes made from the last result down to the first.
RECURSIVE SetAllDescending(_, _, _, _, _)
SetAllDescending(json, paths, values, j, matching) ==
    IF j > Len(values) THEN json
    ELSE IF Len(values) > Len(paths) THEN [t |-> "panic"]
    ELSE LET next == Set(json, paths[Len(values) + 1 - j],
                         values[Len(values) + 1 - j], matching) IN
         IF next = Failed THEN Failed
         ELSE SetAllDescending(next, paths, values, j + 1, matching)

RECURSIVE SetAll(_, _, _, _, _)
SetAll(json, paths, values, j, matching) ==
    IF j > Len(values) THEN json
    ELSE IF j > Len(paths) THEN [t |-> "panic"]
    ELSE LET next == Set(json, paths[j], values[j], matching) IN
         IF next = Failed THEN Failed
         ELSE SetAll(next, paths, values, j + 1, matching)

\* The end of executeSet and of one iteration step: out is what the writes
\* produced.
Written(out, mode, calls) ==
    IF out = Failed THEN Outcome("err", Nil, "set failed", mode, calls)
    ELSE IF out.t = "panic" THEN Outcome("panic", Nil, NoError, mode, calls)
    ELSE Outcome("ok", out, NoError, mode, calls)

\* executeSet once the transformer has returned r.
setResults(program, jsonData, r, matching) ==
    IF r.err # NoError
    THEN Outcome("err", Nil, r.err, "set", <<Invocation(program.Args, r)>>)
    ELSE IF Len(r.res) # Len(program.Variables)
    THEN Outcome("err", Nil, "number of output values does not match", "set",
                 <<Invocation(program.Args, r)>>)
    ELSE Written(SetAll(jsonData, program.Variables, r.res, 1, matching), "set",
                 <<Invocation(program.Args, r)>>)

\* An executeSet that starts from the document without its members whose
\* key begins with "_".
executeSetDroppingTemporaries(program, jsonData, matching) ==
    LET kept == Obj(SelectSeq(jsonData.v, LAMBDA m : ~HasPrefix(m.k, "_"))) IN
    IF program.Transformer \notin Registry
    THEN Outcome("err", jsonData, "transformer not found", "set", <<>>)
    ELSE setResults(program, kept,
                    Transform(program.Transformer, program.Args, jsonData), matching)

executeSet(program, jsonData, matching) ==
    IF program.Transformer \notin Registry
    THEN Outcome("err", jsonData, "transformer not found", "set", <<>>)
    ELSE setResults(program, jsonData,
                    Transform(program.Transformer, program.Args, jsonData), matching)

\* The body of "for i := range array.Array()" from index i on; n is the
\* length the array had when the loop started.
RECURSIVE IterateFrom(_, _, _, _, _, _)
\* One iteration once its writes are done: w is the outcome of the writes.
IterateNext(program, w, i, n, matching) ==
    IF w.st # "ok" THEN w
    ELSE IterateFrom(program, w.doc, i + 1, n, w.calls, matching)

\* An iteration that, when the transformer fails, hands back the document
\* with the elements transformed so far.
IterateResultsKeeping(program, jsonData, i, n, args, r, calls, matching) ==
    IF r.err # NoError
    THEN Outcome("err", jsonData, r.err, "iteration", Append(calls, Invocation(args, r)))
    ELSE IterateNext(program,
             Written(SetAll(jsonData,
                            [j \in 1..Len(program.Variables) |->
                                ReplaceFirst(program.Variables[j], "#", Itoa(i))],
                            r.res, 1, matching),
                     "iteration", Append(calls, Invocation(args, r))),
             i, n, matching)

\* One iteration once the transformer, constructed with args, has returned r.
IterateResults(program, jsonData, i, n, args, r, calls, matching) ==
    IF r.err # NoError
    THEN Outcome("err", Nil, r.err, "iteration", Append(calls, Invocation(args, r)))
    ELSE IterateNext(program,
             Written(SetAll(jsonData,
                            [j \in 1..Len(program.Variables) |->
                                ReplaceFirst(program.Variables[j], "#", Itoa(i))],
                            r.res, 1, matching),
                     "iteration", Append(calls, Invocation(args, r))),
             i, n, matching)

\* An iteration that constructs the transformer with the declared Args.
IterateOnDeclaredArgs(program, jsonData, i, n, calls, variable, matching) ==
    IterateResults(program, jsonData, i, n, program.Args,
                   Transform(program.Transformer, program.Args, jsonData),
                   calls, matching)

\* An iteration that hands the transformer the declared Args followed by
\* the substituted variable.
IterateOnArgsAndVariable(program, jsonData, i, n, calls, variable, matching) ==
    IterateResults(program, jsonData, i, n, Append(program.Args, variable),
                   Transform(program.Transformer, Append(program.Args, variable),
                             jsonData),
                   calls, matching)

\* One iteration: the transformer gets the substituted variable as its only
\* argument.
IterateOn(program, jsonData, i, n, calls, variable, matching) ==
    IterateResults(program, jsonData, i, n, <<variable>>,
                   Transform(program.Transformer, <<variable>>, jsonData),
                   calls, matching)

IterateFrom(program, jsonData, i, n, calls, matching) ==
    IF i >= n THEN Outcome("ok", jsonData, NoError, "iteration", calls)
    ELSE IF program.Transformer \notin Registry
    THEN Outcome("err", jsonData, "transformer not found", "iteration", calls)
    ELSE IterateOn(program, jsonData, i, n, calls,
                   ReplaceFirst(program.Variables[1], "#", Itoa(i)), matching)

\* executeIteration once the array field has been read.
iterateArray(program, jsonData, array, matching) ==
    IF ~IsArray(array)
    THEN Outcome("err", Nil, "field is not an array", "iteration", <<>>)
    ELSE IterateFrom(program, jsonData, 0, Len(array.v), <<>>, matching)

\* executeIteration from "arrayField := variable[:placeholderIndex-1]" on:
\* a slice bound below 0 is a run-time panic.
iterateField(program, jsonData, variable, placeholderIndex, matching) ==
    IF placeholderIndex - 1 < 0
    THEN Outcome("panic", Nil, NoError, "iteration", <<>>)
    ELSE iterateArray(program, jsonData,
                      Get(jsonData, Slice(variable, 0, placeholderIndex - 1)), matching)

executeIteration(program, jsonData, matching) ==
    iterateField(program, jsonData, program.Variables[1],
                 IndexOf(program.Variables[1], "#"), matching)

\* A clean-up that returns after the first temporary it deletes.
RECURSIVE DeleteFirstTemporary(_, _, _)
DeleteFirstTemporary(json, vars, i) ==
    IF i > Len(vars) THEN json
    ELSE IF HasPrefix(vars[i], "_") THEN Delete(json, vars[i])
    ELSE DeleteFirstTemporary(json, vars, i + 1)

\* The clean-up loops of ExecuteAll over the variables vars (all programs'
\* Variables in program order), from position i on.
RECURSIVE DeleteTemporaries(_, _, _)
\* The loops once DeleteBytes has returned next for vars[i].
DeleteNext(next, vars, i) ==
    IF next = Failed THEN Failed ELSE DeleteTemporaries(next, vars, i + 1)

DeleteTemporaries(json, vars, i) ==
    IF i > Len(vars) THEN json
    ELSE IF HasPrefix(vars[i], "_") THEN DeleteNext(Delete(json, vars[i]), vars, i)
    ELSE DeleteTemporaries(json, vars, i + 1)

RECURSIVE AllVariables(_)
AllVariables(progs) ==
    IF Len(progs) = 0 THEN <<>>
    ELSE progs[1].Variables \o AllVariables(Tail(progs))

\* An Execute that deletes the program's own temporaries before it returns.
CleanOwn(program, o) ==
    IF o.st = "ok" THEN [o EXCEPT !.doc = DeleteTemporaries(o.doc, program.Variables, 1)]
    ELSE o
ExecuteThenClean(program, jsonData, matching) ==
    CleanOwn(program, IF Contains(program.Variables[1], "#")
                      THEN executeIteration(program, jsonData, matching)
                      ELSE executeSet(program, jsonData, matching))

Execute(program, jsonData, matching) ==
    IF Contains(program.Variables[1], "#")
    THEN executeIteration(program, jsonData, matching)
    ELSE executeSet(program, jsonData, matching)


(***************************************************************************)
(* The documents and programs the model runs.                              *)
(***************************************************************************)
Program(variables, transformer, args) ==
    [Variables |-> variables, Transformer |-> transformer, Args |-> args]

\* {"n":"ab","p":"a/b","w":60,"h":1.72,"a":["x",..],"f":[{"n":"x","l":"m"},..],
\*  "g":73.79,"m":2,"e":[{"n":"x"},{"l":"m"}]} with n elements in the arrays
\* a and f; g is a second weight, for the height m, that differs from
\* document to document: 73.79, 73.8, 99.8, 99.79; the second element of e
\* has no member n.
Element(i) == <<Lower[23 + i]>>
Weights == <<7379, 7380, 9980, 9979>>
Document(n) ==
    Obj(<<Member(<<"n">>, Str(<<"a", "b">>)),
          Member(<<"p">>, Str(<<"a", "/", "b">>)),
          Member(<<"w">>, Num(6000)),
          Member(<<"h">>, Num(172)),
          Member(<<"a">>, Arr([i \in 1..n |-> Str(Element(i))])),
          Member(<<"f">>, Arr([i \in 1..n |->
              Obj(<<Member(<<"n">>, Str(Element(i))), Member(<<"l">>, Str(<<"m">>))>>)])),
          Member(<<"g">>, Num(Weights[(n % 4) + 1])),
          Member(<<"m">>, Num(200)),
          Member(<<"e">>, Arr(<<Obj(<<Member(<<"n">>, Str(<<"x">>))>>),
                                Obj(<<Member(<<"l">>, Str(<<"m">>))>>)>>))>>)
Documents == {Document(n) : n \in 0..MaxLen}

Slash == <<"'", "/", "'">>
Programs ==
    { \* SET _t = concatenate(' ', n, p)
      Program(<< <<"_", "t">> >>, "concatenate", << <<"'", " ", "'">>, <<"n">>, <<"p">> >>),
      \* SET u = uppercase(_t)
      Program(<< <<"u">> >>, "uppercase", << <<"_", "t">> >>),
      \* SET _c, _d = split(p, '/')
      Program(<< <<"_", "c">>, <<"_", "d">> >>, "split", << <<"p">>, Slash >>),
      \* SET o._t = uppercase(n)
      Program(<< <<"o", ".", "_", "t">> >>, "uppercase", << <<"n">> >>),
      \* SET _t.x = uppercase(n)
      Program(<< <<"_", "t", ".", "x">> >>, "uppercase", << <<"n">> >>),
      \* SET _a.0, _a.1 = split(p, '/')
      Program(<< <<"_", "a", ".", "0">>, <<"_", "a", ".", "1">> >>, "split", << <<"p">>, Slash >>),
      \* SET a.# = uppercase(a.#)
      Program(<< <<"a", ".", "#">> >>, "uppercase", << <<"a", ".", "#">> >>),
      \* SET f.#.n = uppercase(f.#.n)
      Program(<< <<"f", ".", "#", ".", "n">> >>, "uppercase", << <<"f", ".", "#", ".", "n">> >>),
      \* SET u, f.#.n = split(p, '/')
      Program(<< <<"u">>, <<"f", ".", "#", ".", "n">> >>, "split", << <<"p">>, Slash >>),
      \* SET a.#, u = uppercase(a.#)
      Program(<< <<"a", ".", "#">>, <<"u">> >>, "uppercase", << <<"a", ".", "#">> >>),
      \* SET #.n = uppercase(n)
      Program(<< <<"#", ".", "n">> >>, "uppercase", << <<"n">> >>),
      \* SET ab# = uppercase(n)
      Program(<< <<"a", "b", "#">> >>, "uppercase", << <<"n">> >>),
      \* SET n.# = uppercase(n.#)
      Program(<< <<"n", ".", "#">> >>, "uppercase", << <<"n", ".", "#">> >>),
      \* SET a.# = split(a.#, '/')
      Program(<< <<"a", ".", "#">> >>, "split", << <<"a", ".", "#">>, Slash >>),
      \* SET a.# = nosuch(a.#)
      Program(<< <<"a", ".", "#">> >>, "nosuch", << <<"a", ".", "#">> >>),
      \* SET u = nosuch(n)
      Program(<< <<"u">> >>, "nosuch", << <<"n">> >>),
      \* SET u = split(p, '/')
      Program(<< <<"u">> >>, "split", << <<"p">>, Slash >>),
      \* SET u = uppercase('n')
      Program(<< <<"u">> >>, "uppercase", << <<"'", "n", "'">> >>),
      \* SET u = split(p, q)
      Program(<< <<"u">> >>, "split", << <<"p">>, <<"q">> >>),
      \* SET b, i = bmi(w, h)
      Program(<< <<"b">>, <<"i">> >>, "bmi", << <<"w">>, <<"h">> >>),
      \* SET u = uppercase(n, p)
      Program(<< <<"u">> >>, "uppercase", << <<"n">>, <<"p">> >>),
      \* SET u = concatenate(' ', n)
      Program(<< <<"u">> >>, "concatenate", << <<"'", " ", "'">>, <<"n">> >>),
      \* SET u = concatenate(' ', n, z)
      Program(<< <<"u">> >>, "concatenate", << <<"'", " ", "'">>, <<"n">>, <<"z">> >>),
      \* SET u = split(p)
      Program(<< <<"u">> >>, "split", << <<"p">> >>),
      \* SET u, v = split(z, '/')
      Program(<< <<"u">>, <<"v">> >>, "split", << <<"z">>, Slash >>),
      \* SET b, i = bmi(w)
      Program(<< <<"b">>, <<"i">> >>, "bmi", << <<"w">> >>),
      \* SET b, i = bmi(w, z)
      Program(<< <<"b">>, <<"i">> >>, "bmi", << <<"w">>, <<"z">> >>),
      \* SET b, i = bmi(g, m)
      Program(<< <<"b">>, <<"i">> >>, "bmi", << <<"g">>, <<"m">> >>),
      \* SET b, i = bmi(n, h)
      Program(<< <<"b">>, <<"i">> >>, "bmi", << <<"n">>, <<"h">> >>),
      \* SET p, p = split(p, '/')
      Program(<< <<"p">>, <<"p">> >>, "split", << <<"p">>, Slash >>),
      \* SET e.#.n = uppercase(e.#.n)
      Program(<< <<"e", ".", "#", ".", "n">> >>, "uppercase", << <<"e", ".", "#", ".", "n">> >>) }

RECURSIVE SeqsUpTo(_, _)
SeqsUpTo(S, n) ==
    IF n = 0 THEN {<<>>}
    ELSE LET shorter == SeqsUpTo(S, n - 1) IN
         shorter \cup {Append(q, e) : q \in shorter, e \in S}
Batches == SeqsUpTo(Programs, MaxProgs)

(***************************************************************************)
(* The lexer.  A text is a sequence of runes; positions are byte offsets,  *)
(* as in the Go strings the lexer slices.                                  *)
(***************************************************************************)
\* utf8.DecodeRuneInString: the width in bytes of a rune.
Width(r) == IF r = "é" THEN 2 ELSE 1

\* The rune next() returns at the end of the input.
NoRune == "EOF(-1)"

\* len(s) in bytes.
RECURSIVE ByteLen(_)
ByteLen(s) == IF Len(s) = 0 THEN 0 ELSE Width(s[1]) + ByteLen(Tail(s))

\* The index of the rune that starts at byte offset pos (Len(s) + 1 at the end).
RuneIndex(s, pos) ==
    CHOOSE j \in 1..(Len(s) + 1) : ByteLen(SubSeq(s, 1, j - 1)) = pos

\* s[lo:hi] with byte offsets.
ByteSlice(s, lo, hi) == SubSeq(s, RuneIndex(s, lo), RuneIndex(s, hi) - 1)

IsLetter(r) == r \in Range(Lower) \cup Range(Upper) \cup {"é"}
IsDigit(r) == r \in Range(Digits)
IsSpace(r) == r \in {" ", "\t", "\n", "\r"}

IDENTIFIER == "IDENTIFIER"
\* lexer.STRING (STRING is a reserved word here)
STRINGLIT == "STRING"
OPERATOR == "OPERATOR"
LPAREN == "LPAREN"
RPAREN == "RPAREN"
COMMA == "COMMA"
KEYWORD == "KEYWORD"
ERROR == "ERROR"
EOL == "EOL"
EOF == "EOF"

Token(type, literal, line, pos) ==
    [Type |-> type, Literal |-> literal, Line |-> line, Pos |-> pos]

\* The zero Token a receive from the closed channel yields.
ZeroToken == Token("", <<>>, 0, 0)

\* No token is waiting to be sent.
NoToken == [Type |-> "none"]

keywords == {<<"S", "E", "T">>}

symbols(r) ==
    CASE r = "=" -> OPERATOR
      [] r = "(" -> LPAREN
      [] r = ")" -> RPAREN
      [] r = "," -> COMMA
      [] OTHER -> ""

\* bufio.ScanLines: the lines of a text without their line breaks; a final
\* line break opens no further line, and a trailing carriage return of a
\* line is dropped.
DropCR(line) ==
    IF Len(line) > 0 /\ line[Len(line)] = "\r" THEN SubSeq(line, 1, Len(line) - 1)
    ELSE line
AllButLastEmpty(pieces) ==
    IF pieces[Len(pieces)] = <<>> THEN SubSeq(pieces, 1, Len(pieces) - 1) ELSE pieces
ScanLines(text) ==
    [i \in 1..Len(AllButLastEmpty(SplitStr(text, <<"\n">>))) |->
        DropCR(AllButLastEmpty(SplitStr(text, <<"\n">>))[i])]

\* NewLexer: the Lexer struct, the scanner's remaining lines and whether its
\* reader ends with an error, and the goroutine's position:
\*   pc      "scan" (at l.sc.Scan()), "lex" (in a state function), "send"
\*           (blocked in a channel send), "close" (after the EOF send),
\*           "done" (run returned), "panic"
\*   state   the state function to run
\*   out     the token of the pending send, after where the code continues
\*           once the send completes
\*   emitted the number of sends started
NewLexer(text, readError) ==
    [sc |-> ScanLines(text), scErr |-> readError,
     input |-> <<>>, start |-> 0, pos |-> 0, width |-> 0, line |-> 1,
     pc |-> "scan", state |-> "lexText", out |-> NoToken, after |-> "",
     emitted |-> 0, closed |-> FALSE]

\* emit after its send has completed: "l.start = l.pos", then the state
\* function goes on where the token was emitted.
Resume(l) ==
    LET m == [l EXCEPT !.start = l.pos] IN
    CASE l.after = "lexText" -> [m EXCEPT !.pc = "lex", !.state = "lexText"]
      [] l.after = "eol" -> [m EXCEPT !.pc = "scan", !.line = l.line + 1]
      [] l.after = "nil" -> [m EXCEPT !.pc = "scan"]
      [] l.after = "close" -> [m EXCEPT !.pc = "close"]
      [] l.after = "done" -> [m EXCEPT !.pc = "done"]

\* A send that does not wait for its receiver.
SendUnblocked(l, tok, after) ==
    Resume([l EXCEPT !.out = tok, !.after = after, !.emitted = l.emitted + 1])

\* "l.tokens <- tok": the goroutine blocks until the token is received; a
\* send on the closed channel panics.
Send(l, tok, after) ==
    IF l.closed THEN [l EXCEPT !.pc = "panic"]
    ELSE [l EXCEPT !.pc = "send", !.out = tok, !.after = after,
                   !.emitted = l.emitted + 1]

\* An emit that reports the offset where the token ends.
emitAtEnd(l, t, after) ==
    Send(l, Token(t, ByteSlice(l.input, l.start, l.pos), l.line, l.pos), after)

emit(l, t, after) ==
    Send(l, Token(t, ByteSlice(l.input, l.start, l.pos), l.line, l.start), after)

emitError(l, message, after) ==
    Send(l, Token(ERROR, message, l.line, l.start), after)

\* next(): the rune returned, and the lexer after the call.
nextRune(l) ==
    IF l.pos >= ByteLen(l.input) THEN NoRune ELSE l.input[RuneIndex(l.input, l.pos)]
next(l) ==
    IF l.pos >= ByteLen(l.input) THEN [l EXCEPT !.width = 0]
    ELSE [l EXCEPT !.width = Width(nextRune(l)), !.pos = l.pos + Width(nextRune(l))]

backup(l) == [l EXCEPT !.pos = l.pos - l.width]

UnexpectedCharacter(r) ==
    <<"u", "n", "e", "x", "p", "e", "c", "t", "e", "d", " ",
      "c", "h", "a", "r", "a", "c", "t", "e", "r", " ", "'", r, "'">>

ErrorReadingInput ==
    <<"e", "r", "r", "o", "r", " ", "r", "e", "a", "d", "i", "n", "g", " ",
      "i", "n", "p", "u", "t">>

\* One turn of the loop of lexString, r the rune just read by m = next(l).
\* A lexString that takes the end of the line as the end of the string.
lexStringToEndOfLine(m, r) ==
    IF r = "'" THEN emit(m, STRINGLIT, "lexText")
    ELSE IF r = NoRune THEN emit(m, STRINGLIT, "nil")
    ELSE m

lexString(m, r) ==
    IF r = "'" THEN emit(m, STRINGLIT, "lexText")
    ELSE IF r = NoRune THEN emit(m, ERROR, "nil")
    ELSE m

\* One turn of the loop of lexText.
lexText(m, r) ==
    IF r = "\n" THEN emit(m, EOL, "eol")
    ELSE IF r = "'" THEN [m EXCEPT !.state = "lexString"]
    ELSE IF IsSpace(r) THEN [m EXCEPT !.start = m.pos]
    ELSE IF IsLetter(r) \/ r = "_" \/ r = "#"
    THEN [backup(m) EXCEPT !.state = "lexIdentifierOrKeyword"]
    ELSE IF symbols(r) # "" THEN emit(m, symbols(r), "lexText")
    ELSE IF r = NoRune THEN emit(m, EOF, "lexText")
    ELSE emitError(m, UnexpectedCharacter(r), "nil")

isKeyword(word) == word \in keywords

isAllowedCharacter(r) ==
    IsLetter(r) \/ IsDigit(r) \/ r = "." \/ r = "_" \/ r = "#"

\* The word is scanned: back up, then emit it.
emitWord(b) ==
    IF isKeyword(ByteSlice(b.input, b.start, b.pos)) THEN emit(b, KEYWORD, "lexText")
    ELSE emit(b, IDENTIFIER, "lexText")

\* One turn of the loop of lexIdentifierOrKeyword.
lexIdentifierOrKeyword(m, r) ==
    IF isAllowedCharacter(r) THEN m ELSE emitWord(backup(m))

\* One rune of the current state function.
stateFn(l, m, r) ==
    CASE l.state = "lexText" -> lexText(m, r)
      [] l.state = "lexString" -> lexString(m, r)
      [] l.state = "lexIdentifierOrKeyword" -> lexIdentifierOrKeyword(m, r)

\* next() is called once, m the lexer after it and r the rune it returned.
step(l) ==
    CHOOSE after \in {stateFn(l, m, r) : m \in {next(l)}, r \in {nextRune(l)}} : TRUE

\* A scan that takes the line without appending the line break.
scanRaw(l) ==
    IF Len(l.sc) > 0
    THEN [l EXCEPT !.sc = Tail(l.sc), !.input = Head(l.sc),
                   !.pos = 0, !.start = 0, !.pc = "lex", !.state = "lexText"]
    ELSE emit(l, EOF, "close")

\* run: the head of "for l.sc.Scan()": the next line becomes the input, or
\* the loop ends and EOF is sent.
scan(l) ==
    IF Len(l.sc) > 0
    THEN [l EXCEPT !.sc = Tail(l.sc), !.input = Append(Head(l.sc), "\n"),
                   !.pos = 0, !.start = 0, !.pc = "lex", !.state = "lexText"]
    ELSE emit(l, EOF, "close")

\* run after the EOF send: close(l.tokens), then the error of the scanner,
\* if any, is sent as an ERROR token.
finish(l) ==
    IF l.scErr THEN emitError([l EXCEPT !.closed = TRUE], ErrorReadingInput, "done")
    ELSE [l EXCEPT !.closed = TRUE, !.pc = "done"]

(***************************************************************************)
(* The parser.  It is deterministic, so its position is a function of the  *)
(* tokens it has received: each function below runs on the received tokens *)
(* toks from index i and answers "more" where the code would block in      *)
(* NextToken for a token not yet received.  A token that was received but  *)
(* lies at or after the index the grammar has reached is the one in        *)
(* p.buffer.                                                               *)
(***************************************************************************)
More == [st |-> "more"]
Crash == [st |-> "panic"]

\* s without its leading characters that are in set.
RECURSIVE SkipAll(_, _)
SkipAll(s, set) ==
    IF Len(s) > 0 /\ s[1] \in set THEN SkipAll(Tail(s), set) ELSE s

\* What follows the flags, the width and the precision of a formatting
\* directive whose "%" has been read.
SkipPrecision(s) ==
    IF Len(s) > 0 /\ s[1] = "." THEN SkipAll(Tail(s), Range(Digits)) ELSE s
VerbOf(s) ==
    SkipPrecision(SkipAll(SkipAll(s, {"#", "0", "+", "-", " "}), Range(Digits)))

\* fmt.Errorf(format) with no operand, a text being a sequence of pieces
\* (a constant part of a message, or one character): a piece other than
\* "%" is copied; "%%" gives "%"; any other verb has no operand and gives
\* "%!v(MISSING)", flags, width and precision being dropped; a "%" with
\* nothing after it gives "%!(NOVERB)".  (The forms "%*" and "%[n]" are
\* left out; no text of the domain holds them.)
RECURSIVE Errorf(_)
ErrorfVerb(v) ==
    IF Len(v) = 0 THEN <<"%", "!", "(", "N", "O", "V", "E", "R", "B", ")">>
    ELSE IF v[1] = "%" THEN <<"%">> \o Errorf(Tail(v))
    ELSE <<"%", "!", v[1], "(", "M", "I", "S", "S", "I", "N", "G", ")">>
            \o Errorf(Tail(v))
Errorf(format) ==
    IF Len(format) = 0 THEN <<>>
    ELSE IF format[1] # "%" THEN <<format[1]>> \o Errorf(Tail(format))
    ELSE ErrorfVerb(VerbOf(Tail(format)))

\* The text errorWithContext writes into its builder.
Diagnostic(message, line, pos, text) ==
    <<message, " at line ">> \o Itoa(line) \o <<", position ">> \o Itoa(pos)
        \o <<"\n">> \o text \o <<"\n">> \o [j \in 1..pos |-> " "] \o <<"^">>

\* errorWithContext
errorWithContext(input, tok, message) ==
    IF tok.Line > Len(SplitStr(input, <<"\n">>))
    THEN [st |-> "err", message |-> "invalid line number", line |-> tok.Line,
          pos |-> 0, text |-> <<>>, pointer |-> <<>>,
          error |-> <<"invalid line number ">> \o Itoa(tok.Line)]
    ELSE IF tok.Line - 1 < 0 THEN Crash
    ELSE [st |-> "err", message |-> message, line |-> tok.Line, pos |-> tok.Pos,
          text |-> SplitStr(input, <<"\n">>)[tok.Line],
          pointer |-> Append([j \in 1..tok.Pos |-> " "], "^"),
          error |-> CHOOSE e \in {Errorf(format) :
                                     format \in {Diagnostic(message, tok.Line, tok.Pos,
                                                  SplitStr(input, <<"\n">>)[tok.Line])}} : TRUE]

isIdentifier(token) == token.Type = IDENTIFIER

\* The loop of parseVariables, i the index of the token it peeks next.
RECURSIVE variablesLoop(_, _, _, _)
variablesLoop(input, toks, i, variables) ==
    IF i > Len(toks) THEN More
    ELSE IF toks[i].Type = OPERATOR /\ toks[i].Literal = <<"=">>
    THEN [st |-> "ok", variables |-> variables, i |-> i]
    ELSE IF toks[i].Type = COMMA
    THEN IF i + 1 > Len(toks) THEN More
         ELSE IF ~isIdentifier(toks[i + 1])
         THEN errorWithContext(input, toks[i + 1], "expected variable name")
         ELSE variablesLoop(input, toks, i + 2, Append(variables, toks[i + 1].Literal))
    ELSE errorWithContext(input, toks[i], "unexpected token in variables")

parseVariables(input, toks, i) ==
    IF i > Len(toks) THEN More
    ELSE IF ~isIdentifier(toks[i])
    THEN errorWithContext(input, toks[i], "expected variable name")
    ELSE variablesLoop(input, toks, i + 1, <<toks[i].Literal>>)

\* A check of the transformer name that lets digits through as well.
isTransformerOrDigits(token) ==
    \A j \in 1..Len(token.Literal) :
       token.Literal[j] \in Range(Lower) \cup Range(Upper) \cup Range(Digits)

isTransformer(token) ==
    \A j \in 1..Len(token.Literal) :
       token.Literal[j] \in Range(Lower) \cup Range(Upper)

\* A loop that reads one token more before it reports the token after an
\* argument, and reports that later token.
RECURSIVE argumentsLoopLate(_, _, _, _, _)
argumentsLoopLate(input, toks, i, transformer, args) ==
    IF i > Len(toks) THEN More
    ELSE IF toks[i].Type = RPAREN
    THEN [st |-> "ok", transformer |-> transformer, args |-> args, i |-> i + 1]
    ELSE IF toks[i].Type # IDENTIFIER /\ toks[i].Type # STRINGLIT
    THEN errorWithContext(input, toks[i], "expected argument (field or string)")
    ELSE IF i + 1 > Len(toks) THEN More
    ELSE IF toks[i + 1].Type = COMMA
    THEN argumentsLoopLate(input, toks, i + 2, transformer,
                           Append(args, toks[i].Literal))
    ELSE IF toks[i + 1].Type = RPAREN
    THEN [st |-> "ok", transformer |-> transformer,
          args |-> Append(args, toks[i].Literal), i |-> i + 2]
    ELSE IF i + 2 > Len(toks) THEN More
    ELSE errorWithContext(input, toks[i + 2], "unexpected token in arguments")

\* The loop of parseTransformer, i the index of the token it reads next.
RECURSIVE argumentsLoop(_, _, _, _, _)
argumentsLoop(input, toks, i, transformer, args) ==
    IF i > Len(toks) THEN More
    ELSE IF toks[i].Type = RPAREN
    THEN [st |-> "ok", transformer |-> transformer, args |-> args, i |-> i + 1]
    ELSE IF toks[i].Type # IDENTIFIER /\ toks[i].Type # STRINGLIT
    THEN errorWithContext(input, toks[i], "expected argument (field or string)")
    ELSE IF i + 1 > Len(toks) THEN More
    ELSE IF toks[i + 1].Type = COMMA
    THEN argumentsLoop(input, toks, i + 2, transformer, Append(args, toks[i].Literal))
    ELSE IF toks[i + 1].Type = RPAREN
    THEN [st |-> "ok", transformer |-> transformer,
          args |-> Append(args, toks[i].Literal), i |-> i + 2]
    ELSE errorWithContext(input, toks[i + 1], "unexpected token in arguments")

\* expectSymbol(lexer.LPAREN) and what follows it in parseTransformer.
expectSymbol(input, toks, i, transformer) ==
    IF i > Len(toks) THEN More
    ELSE IF toks[i].Type # LPAREN
    THEN errorWithContext(input, toks[i], "expected symbol 'LPAREN'")
    ELSE argumentsLoop(input, toks, i + 1, transformer, <<>>)

parseTransformer(input, toks, i) ==
    IF i > Len(toks) THEN More
    ELSE IF toks[i].Type # IDENTIFIER
    THEN errorWithContext(input, toks[i], "expected transformer name")
    ELSE IF ~isTransformer(toks[i])
    THEN errorWithContext(input, toks[i],
                          "expected transformer name to have only alphabets")
    ELSE expectSymbol(input, toks, i + 1, toks[i].Literal)

\* An assignment that stores the arguments as variables and the variables
\* as arguments.
assignmentSwapped(variables, t) ==
    IF t.st # "ok" THEN t
    ELSE [st |-> "ok", i |-> t.i,
          program |-> [Variables |-> t.args, Transformer |-> t.transformer,
                       Args |-> variables]]

\* parseAssignment once parseTransformer has answered t.
assignmentDone(variables, t) ==
    IF t.st # "ok" THEN t
    ELSE [st |-> "ok", i |-> t.i,
          program |-> [Variables |-> variables, Transformer |-> t.transformer,
                       Args |-> t.args]]

\* parseAssignment once parseVariables has answered v.
assignmentOperator(input, toks, v) ==
    IF v.st # "ok" THEN v
    ELSE IF v.i > Len(toks) THEN More
    ELSE IF toks[v.i].Type # OPERATOR \/ toks[v.i].Literal # <<"=">>
    THEN errorWithContext(input, toks[v.i], "expected operator '='")
    ELSE assignmentDone(v.variables, parseTransformer(input, toks, v.i + 1))

\* The answer of parseVariables is computed once.
parseAssignment(input, toks, i) ==
    CHOOSE answer \in {assignmentOperator(input, toks, v) :
                          v \in {parseVariables(input, toks, i)}} : TRUE

parseProgram(input, toks, i) ==
    IF i > Len(toks) THEN More
    ELSE IF toks[i].Type # KEYWORD \/ toks[i].Literal # <<"S", "E", "T">>
    THEN errorWithContext(input, toks[i], "expected 'SET' keyword")
    ELSE parseAssignment(input, toks, i + 1)

\* Run() (*Program, error), from token i.
RunFrom(input, toks, i) == parseProgram(input, toks, i)

\* RunAll: the loop from token i with the programs gathered so far; r is
\* what Run answered in this turn.
RECURSIVE runAllLoop(_, _, _, _)
\* A loop that consumes the token after a program whatever its type.
runAllNextSkipping(input, toks, programs, r) ==
    IF r.st # "ok" THEN r
    ELSE IF r.i + 1 > Len(toks) THEN More
    ELSE IF toks[r.i + 1].Type = EOF
    THEN [st |-> "ok", programs |-> Append(programs, r.program), i |-> r.i + 1]
    ELSE runAllLoop(input, toks, r.i + 1, Append(programs, r.program))

runAllNext(input, toks, programs, r) ==
    IF r.st # "ok" THEN r
    ELSE IF r.i > Len(toks) THEN More
    ELSE IF toks[r.i].Type = EOL
    THEN IF r.i + 1 > Len(toks) THEN More
         ELSE IF toks[r.i + 1].Type = EOF
         THEN [st |-> "ok", programs |-> Append(programs, r.program), i |-> r.i + 1]
         ELSE runAllLoop(input, toks, r.i + 1, Append(programs, r.program))
    ELSE runAllLoop(input, toks, r.i, Append(programs, r.program))
\* The answer of Run is computed once.
runAllLoop(input, toks, i, programs) ==
    CHOOSE answer \in {runAllNext(input, toks, programs, r) :
                          r \in {RunFrom(input, toks, i)}} : TRUE

Run(input, toks) == RunFrom(input, toks, 1)
RunAll(input, toks) == runAllLoop(input, toks, 1, <<>>)

\* The consumer of the tokens: Run, RunAll, or a loop of NextToken up to
\* the EOF token, and what it has returned after receiving toks.
(***************************************************************************)
(* The Parser object call by call: its lookahead buffer, the number of     *)
(* tokens it has taken from the lexer, the statement it is at, the token   *)
(* its last call returned, and the calls of nextToken and peekToken it has *)
(* made, each with what it returned and left behind.                       *)
(***************************************************************************)
NewParser(consumer) ==
    [buffer |-> <<>>, read |-> 0, at |-> "parseProgram", token |-> NoToken,
     calls |-> <<>>, consumer |-> consumer]

\* The call that returned p.token and left p, written to the calls of p.
Called(p, call) ==
    [p EXCEPT !.calls = Append(@, [call |-> call, token |-> p.token,
                                   read |-> p.read, buffer |-> Len(p.buffer)])]

\* A nextToken that returns the buffered token and leaves it in the buffer.
nextTokenKeepingBuffer(p, toks) ==
    IF Len(p.buffer) > 0
    THEN Called([p EXCEPT !.token = p.buffer[1]], "next")
    ELSE Called([p EXCEPT !.token = toks[p.read + 1], !.read = @ + 1], "next")

\* nextToken; toks are the tokens the lexer hands over, in order.
nextToken(p, toks) ==
    IF Len(p.buffer) > 0
    THEN Called([p EXCEPT !.token = p.buffer[1],
                          !.buffer = SubSeq(p.buffer, 1, 0)], "next")
    ELSE Called([p EXCEPT !.token = toks[p.read + 1], !.read = @ + 1], "next")

\* peekToken
peekToken(p, toks) ==
    IF Len(p.buffer) > 0
    THEN Called([p EXCEPT !.token = p.buffer[1]], "peek")
    ELSE Called([p EXCEPT !.token = toks[p.read + 1], !.read = @ + 1,
                          !.buffer = Append(@, toks[p.read + 1])], "peek")

\* The statements of the parser that call peekToken; the others call
\* nextToken.
Peeks == {"variables", "afterArgument", "peekEOL", "peekEOF"}

\* Where a program that was parsed leaves its caller: Run returns it,
\* RunAll goes on to look for an EOL.
AfterProgram(consumer) == IF consumer = "Run" THEN "return" ELSE "peekEOL"

\* The statement the parser goes to from statement at when the call made
\* there returned tok.
Goto(consumer, at, tok) ==
    CASE at = "parseProgram" ->
           IF tok.Type # KEYWORD \/ tok.Literal # <<"S", "E", "T">>
           THEN "error" ELSE "firstVar"
      [] at \in {"firstVar", "nextVar"} ->
           IF ~isIdentifier(tok) THEN "error" ELSE "variables"
      [] at = "variables" ->
           IF tok.Type = OPERATOR /\ tok.Literal = <<"=">> THEN "operator"
           ELSE IF tok.Type = COMMA THEN "comma"
           ELSE "error"
      [] at = "comma" -> "nextVar"
      [] at = "operator" ->
           IF tok.Type # OPERATOR \/ tok.Literal # <<"=">>
           THEN "error" ELSE "transformer"
      [] at = "transformer" ->
           IF tok.Type # IDENTIFIER \/ ~isTransformer(tok)
           THEN "error" ELSE "expectSymbol"
      [] at = "expectSymbol" ->
           IF tok.Type # LPAREN THEN "error" ELSE "argument"
      [] at = "argument" ->
           IF tok.Type = RPAREN THEN AfterProgram(consumer)
           ELSE IF tok.Type # IDENTIFIER /\ tok.Type # STRINGLIT THEN "error"
           ELSE "afterArgument"
      [] at = "afterArgument" ->
           IF tok.Type = COMMA THEN "consumeComma"
           ELSE IF tok.Type = RPAREN THEN "consumeParen"
           ELSE "error"
      [] at = "consumeComma" -> "argument"
      [] at = "consumeParen" -> AfterProgram(consumer)
      [] at = "peekEOL" ->
           IF tok.Type = EOL THEN "consumeEOL" ELSE "parseProgram"
      [] at = "consumeEOL" -> "peekEOF"
      [] at = "peekEOF" ->
           IF tok.Type = EOF THEN "return" ELSE "parseProgram"

\* The call of statement p.at would wait for the lexer: the buffer is
\* empty and every token of toks has been taken.
Waits(p, toks) == Len(p.buffer) = 0 /\ p.read >= Len(toks)

\* p after the statement it is at.
Statement(p, q) == [q EXCEPT !.at = Goto(p.consumer, p.at, q.token)]

\* The parser from p on, until it returns or waits for a token after toks.
RECURSIVE Drive(_, _)
Drive(p, toks) ==
    IF p.at \in {"return", "error"} \/ Waits(p, toks) THEN p
    ELSE IF p.at \in Peeks
    THEN Drive(Statement(p, peekToken(p, toks)), toks)
    ELSE Drive(Statement(p, nextToken(p, toks)), toks)

Consumers == {"NextToken", "Run", "RunAll"}
Consume(consumer, input, toks) ==
    CASE consumer = "Run" -> Run(input, toks)
      [] consumer = "RunAll" -> RunAll(input, toks)
      [] consumer = "NextToken" ->
           IF \E j \in 1..Len(toks) : toks[j].Type = EOF
           THEN [st |-> "ok", i |-> Len(toks) + 1]
           ELSE More

(***************************************************************************)
(* The source texts the lexer and the parser run on.                       *)
(***************************************************************************)
MaxChars == 3
MaxList == 2

\* Every text of up to MaxChars runes over a letter, a digit, a blank, a
\* symbol, a quote, two runes no token starts with, and the line break.
Alphabet == {"a", "1", " ", "=", "'", "$", "%", "\n"}
Texts == UNION {[1..n -> Alphabet] : n \in 0..MaxChars}

\* The j-th variable and the j-th argument of a line: a plain name or a
\* path with a two-byte letter, a field or a string literal holding a
\* comma and a blank.
VariableAt(j) == IF j % 2 = 1 THEN <<"a">> ELSE <<"é", ".", "#">>
ArgumentAt(j) == IF j % 2 = 1 THEN <<"b">> ELSE <<"'", ",", " ", "'">>
VariableLists == {[j \in 1..m |-> VariableAt(j)] : m \in 1..MaxList}
ArgumentLists == {[j \in 1..n |-> ArgumentAt(j)] : n \in 0..MaxList}
Names == {<<"t">>, <<"t", "1">>, <<"t", "_", "#", ".">>}
Closings == {<<")">>, <<",", ")">>, <<>>}

\* "SET v1, .., vm = name(a1, .., an" and its closing.
SetLine(variables, name, args, closing) ==
    <<"S", "E", "T", " ">> \o JoinStr(variables, <<",", " ">>) \o <<" ", "=", " ">>
        \o name \o <<"(">> \o JoinStr(args, <<",", " ">>) \o closing

Lines ==
    {SetLine(v, n, a, c) : v \in VariableLists, n \in Names,
                           a \in ArgumentLists, c \in Closings}

\* Two programs, on two lines or on one line with a blank or a rune no
\* token starts with between them, with and without a final line break.
Basic == {SetLine(<< <<"a">> >>, n, << <<"b">> >>, <<")">>) : n \in Names}
TwoLines ==
    {p \o sep \o q \o e : p \in Basic, sep \in {<<"\n">>, <<" ">>, <<"$">>},
                           q \in Basic, e \in {<<>>, <<"\n">>}}

\* A line without its "=".
MissingOperator == {<<"S", "E", "T", " ", "a", " ", "t", "(", "b", ")">>}

Sources == Texts \cup Lines \cup TwoLines \cup MissingOperator

(***************************************************************************)
(* ExecuteAll(programs, jsonData) as a process.                            *)
(*   programs, input  the arguments of the call                            *)
(*   matching         whether the linked sjson sets through '#' paths      *)
(*                    (newer releases) or rejects them (older ones)        *)
(*   jsonData         the local variable threaded through the loop         *)
(*   k                the index of the next program of the first loop      *)
(*   pc               "exec" (first loop), "cleanup" (second loop),        *)
(*                    "done" (returned), "panic" (crashed)                 *)
(*   ret              what ExecuteAll returned                             *)
(*   trace            the calls of Execute made so far                     *)
(*   deleted          the paths DeleteBytes was called with                *)
(***************************************************************************)
VARIABLES programs, input, matching, jsonData, k, pc, ret, trace, deleted

(***************************************************************************)
(* The lexer goroutine and the consumer of its tokens as two processes.    *)
(*   source     the text given to NewLexer and to NewParser                *)
(*   consumer   who calls NextToken: Run, RunAll, or a plain loop          *)
(*   l          the Lexer and the position of its goroutine                *)
(*   produced   the tokens whose send the lexer has started, in order      *)
(*   received   the tokens NextToken has returned, in order                *)
(*   result     what the consumer has returned ("more" while it runs)      *)
(***************************************************************************)
VARIABLES source, consumer, l, produced, received, result

engineVars == <<programs, input, matching, jsonData, k, pc, ret, trace, deleted>>
lexerVars == <<source, consumer, l, produced, received, result>>
vars == <<programs, input, matching, jsonData, k, pc, ret, trace, deleted,
          source, consumer, l, produced, received, result>>

\* No lexer was created.
NoLexer ==
    /\ source = <<>>
    /\ consumer = "none"
    /\ l = [NewLexer(<<>>, FALSE) EXCEPT !.pc = "done"]
    /\ produced = <<>>
    /\ received = <<>>
    /\ result = [st |-> "none"]

NoReturn == [doc |-> Nil, err |-> "pending"]
Return(doc, err) == [doc |-> doc, err |-> err]

Init ==
    /\ programs \in Batches
    /\ input \in Documents
    /\ matching \in BOOLEAN
    /\ jsonData = input
    /\ k = 1
    /\ pc = IF Len(programs) = 0 THEN "cleanup" ELSE "exec"
    /\ ret = NoReturn
    /\ trace = <<>>
    /\ deleted = <<>>
    /\ NoLexer

\* One call of Execute, with what it was given.
Call(program, json) ==
    [program |-> program, before |-> json, out |-> Execute(program, json, matching)]

\* A loop body that hands every program the batch's original document.
LoopBodyOnInput(progs, i, json) == Call(progs[i], input)

\* The body of the first loop for the i-th program: "jsonData, err =
\* e.Execute(program, jsonData)".
LoopBody(progs, i, json) == Call(progs[i], json)

\* A loop that hands back whatever Execute returned with its error.
LoopReturnAsIs(out) == Return(out.doc, out.err)

\* What the first loop does with the error of the call: return (nil, err).
LoopReturn(out) == Return(Nil, out.err)

ExecuteProgram ==
    /\ pc = "exec"
    /\ trace' = Append(trace, LoopBody(programs, k, jsonData))
    /\ LET out == trace'[Len(trace')].out IN
       /\ jsonData' = out.doc
       /\ IF out.st = "panic"
          THEN pc' = "panic" /\ ret' = ret /\ k' = k
          ELSE IF out.st = "err"
          THEN pc' = "done" /\ ret' = LoopReturn(out) /\ k' = k
          ELSE /\ k' = k + 1
               /\ pc' = IF k + 1 > Len(programs) THEN "cleanup" ELSE "exec"
               /\ ret' = ret
    /\ UNCHANGED <<programs, input, matching, deleted>>
    /\ UNCHANGED lexerVars

\* The temporaries the second loop visits, in order.
Temporaries(progs) ==
    LET all == AllVariables(progs) IN
    SelectSeq(all, LAMBDA v : HasPrefix(v, "_"))

\* The prefix of the temporaries DeleteBytes is called with: up to the first
\* failing call.
RECURSIVE DeleteCalls(_, _, _)
DeleteCalls(json, temps, i) ==
    IF i > Len(temps) THEN <<>>
    ELSE LET left == Delete(json, temps[i]) IN
         IF left = Failed THEN <<temps[i]>>
         ELSE <<temps[i]>> \o DeleteCalls(left, temps, i + 1)

\* What the second loop returns: (nil, err) when a delete failed, else the
\* document.
CleanupReturn(out) ==
    IF out = Failed THEN Return(Nil, "delete failed") ELSE Return(out, NoError)

Cleanup ==
    /\ pc = "cleanup"
    /\ ret' = CleanupReturn(DeleteTemporaries(jsonData, AllVariables(programs), 1))
    /\ jsonData' = ret'.doc
    /\ deleted' = DeleteCalls(jsonData, Temporaries(programs), 1)
    /\ pc' = "done"
    /\ UNCHANGED <<programs, input, matching, k, trace>>
    /\ UNCHANGED lexerVars

Next == ExecuteProgram \/ Cleanup

Spec == Init /\ [][Next]_vars

(***************************************************************************)
(* NewLexer(source), then a consumer calling NextToken.                    *)
(***************************************************************************)
\* ExecuteAll is not running.
NoEngine ==
    /\ programs = <<>>
    /\ input = Document(0)
    /\ matching = FALSE
    /\ jsonData = input
    /\ k = 1
    /\ pc = "done"
    /\ ret = NoReturn
    /\ trace = <<>>
    /\ deleted = <<>>

LexInit ==
    /\ source \in Sources
    /\ consumer \in Consumers
    /\ \E readError \in BOOLEAN : l = NewLexer(source, readError)
    /\ produced = <<>>
    /\ received = <<>>
    /\ result = Consume(consumer, source, <<>>)
    /\ NoEngine

\* The tokens whose send has started, after a step of the lexer from l to m.
Produced(m) ==
    IF m.emitted > l.emitted THEN Append(produced, m.out) ELSE produced

\* run at "for l.sc.Scan()".
Scan ==
    /\ l.pc = "scan"
    /\ l' = scan(l)
    /\ produced' = Produced(l')
    /\ UNCHANGED <<source, consumer, received, result>>
    /\ UNCHANGED engineVars

\* One rune of the state function the lexer is in.
Lex ==
    /\ l.pc = "lex"
    /\ l' = step(l)
    /\ produced' = Produced(l')
    /\ UNCHANGED <<source, consumer, received, result>>
    /\ UNCHANGED engineVars

\* run after the EOF token was received: close and the scanner's error.
Finish ==
    /\ l.pc = "close"
    /\ l' = finish(l)
    /\ produced' = Produced(l')
    /\ UNCHANGED <<source, consumer, received, result>>
    /\ UNCHANGED engineVars

\* The lexer once its pending token was received.
Received(m) ==
    IF m.pc = "send" THEN [Resume(m) EXCEPT !.out = NoToken]
    ELSE [m EXCEPT !.out = NoToken]

\* "<-l.tokens" in NextToken, called by a consumer that wants a token: it
\* meets the pending send of the lexer, or yields the zero Token once the
\* channel is closed.
NextToken ==
    /\ result.st = "more"
    /\ l.out # NoToken \/ l.closed
    /\ \E toks \in {Append(received, IF l.out # NoToken THEN l.out ELSE ZeroToken)} :
          /\ received' = toks
          /\ result' = Consume(consumer, source, toks)
    /\ l' = Received(l)
    /\ UNCHANGED <<source, consumer, produced>>
    /\ UNCHANGED engineVars

LexNext == Scan \/ Lex \/ Finish \/ NextToken

LexSpec == LexInit /\ [][LexNext]_vars

\* The Go scheduler runs a goroutine that can run: while the lexer or the
\* consumer can take a step, one is taken.
FairLexSpec == LexSpec /\ WF_vars(LexNext)

(***************************************************************************)
(* Properties.                                                             *)
(***************************************************************************)
IsSimple(path) == ~Contains(path, "#")

\* Segment sequence a is a proper prefix of segment sequence b.
IsStrictPrefix(a, b) == Len(a) < Len(b) /\ SubSeq(b, 1, Len(a)) = a

\* variables[j] names a plain field that no later write of the same program
\* replaces by writing one of its ancestors.
KeptBy(variables, j) ==
    /\ IsSimple(variables[j])
    /\ \A m \in (j + 1)..Len(variables) :
          ~IsStrictPrefix(SplitPath(variables[m]), SplitPath(variables[j]))

\* C1: ExecuteAll runs the programs strictly in list order, program i on the
\* document the programs before it produced (the first on the input), so a
\* field written by a direct-mode program is there for the next program to
\* read.
C1_ProgramsRunInOrderOnThreadedDocument ==
    /\ Len(trace) <= Len(programs)
    /\ pc = "exec" => Len(trace) = k - 1
    /\ \A i \in 1..Len(trace) :
          /\ trace[i].program = programs[i]
          /\ trace[i].before = IF i = 1 THEN input ELSE trace[i - 1].out.doc
          /\ i > 1 =>
                /\ trace[i - 1].out.st = "ok"
                /\ trace[i - 1].out.mode = "set" =>
                      \A j \in 1..Len(programs[i - 1].Variables) :
                         KeptBy(programs[i - 1].Variables, j) =>
                            Exists(Get(trace[i].before, programs[i - 1].Variables[j]))

\* The second program succeeded on an argument that only the first program's
\* write put into the document.
C1_Witness ==
    /\ Len(trace) = 2
    /\ trace[2].out.st = "ok"
    /\ trace[2].out.mode = "set"
    /\ \E a \in Range(programs[2].Args) :
          /\ a \in Range(programs[1].Variables)
          /\ ~Exists(Get(input, a))
          /\ Exists(Get(trace[2].before, a))

\* C2: when Execute fails for a program, ExecuteAll returns that error and no
\* document, that call is the last one made, and no temporary was deleted.
C2_FailureAbortsBatch ==
    \A i \in 1..Len(trace) :
       trace[i].out.st = "err" =>
          /\ i = Len(trace)
          /\ k = i
          /\ pc = "done"
          /\ ret = Return(Nil, trace[i].out.err)
          /\ deleted = <<>>

\* The second program failed after the first had written a temporary; the
\* batch returned no document.
C2_Witness ==
    /\ Len(trace) = 2
    /\ trace[1].out.st = "ok"
    /\ trace[1].out.doc # input
    /\ Temporaries(programs) # <<>>
    /\ trace[2].out.st = "err"
    /\ ret.doc = Nil
    /\ pc = "done"

RootSegment(path) == SplitPath(path)[1]
LeafSegment(path) == SplitPath(path)[Len(SplitPath(path))]

\* No segment of the path is an array index or the '#' placeholder.
FieldsOnly(path) ==
    \A seg \in Range(SplitPath(path)) : ~IsNumeric(seg) /\ seg # <<"#">>

Succeeded == pc = "done" /\ ret.err = NoError

C4_TemporariesKeptUntilAllExecuted ==
    /\ [](deleted # <<>> \/ pc = "cleanup" =>
             /\ Len(trace) = Len(programs)
             /\ \A i \in 1..Len(trace) : trace[i].out.st = "ok")
    /\ [][(pc = "exec" /\ pc' \in {"exec", "cleanup"}) =>
             /\ deleted' = <<>>
             /\ \A v \in Range(Temporaries(programs)) :
                   Exists(Get(jsonData, RootSegment(v))) =>
                      Exists(Get(jsonData', RootSegment(v)))
             /\ trace'[Len(trace')].out.mode = "set" =>
                   \A j \in 1..Len(programs[k].Variables) :
                      (HasPrefix(programs[k].Variables[j], "_")
                         /\ KeptBy(programs[k].Variables, j)) =>
                            Exists(Get(jsonData', programs[k].Variables[j]))]_vars

\* The second program read a temporary the first one wrote, and the temporary
\* is still in the document when the clean-up is about to start.
C4_Witness ==
    /\ Len(trace) = 2
    /\ pc = "cleanup"
    /\ \E v \in Range(programs[1].Variables) :
          /\ HasPrefix(v, "_")
          /\ ~Exists(Get(input, v))
          /\ v \in Range(programs[2].Args)
          /\ Exists(Get(jsonData, v))

Calls == Range(trace)

\* C5 as stated: in either mode, a transformer that returns a number of
\* results other than the number of declared variables makes Execute fail
\* with an error and no document.
C5_ResultCountMismatchFails ==
    \A c \in Calls :
       \A inv \in Range(c.out.calls) :
          (inv.err = NoError /\ Len(inv.res) # Len(c.program.Variables)) =>
             (c.out.st = "err" /\ c.out.doc = Nil)

\* C6 as stated: Execute runs in iteration mode exactly when some variable of
\* the program, at any position, contains '#'.
C6_IterationIffAnyVariableHasPlaceholder ==
    \A c \in Calls :
       c.out.mode = "iteration" <=>
          \E j \in 1..Len(c.program.Variables) : Contains(c.program.Variables[j], "#")

\* The characters of the path before its first '#', without the separator
\* that ends them.
PrefixBeforePlaceholder(path) ==
    LET h == IndexOf(path, "#") IN
    IF h >= 1 /\ path[h] = "." THEN Slice(path, 0, h - 1) ELSE Slice(path, 0, h)

\* The path with its first '#' replaced by index i.
Substituted(path, i) == ReplaceFirst(path, "#", Itoa(i))

\* The call iterates over a path "prefix.#..." with one '#', whose prefix is
\* an array of the document it was given.
IteratesArray(c) ==
    LET path == c.program.Variables[1]
        h == IndexOf(path, "#")
    IN /\ c.out.mode = "iteration"
       /\ h >= 2
       /\ path[h] = "."
       /\ ~Contains(Slice(path, h + 1, Len(path)), "#")
       /\ IsArray(Get(c.before, PrefixBeforePlaceholder(path)))

\* The paths, as segment sequences, of the scalar leaves of a value.
RECURSIVE Leaves(_)
Leaves(x) ==
    CASE x.t = "obj" ->
           UNION {{<<x.v[i].k>> \o q : q \in Leaves(x.v[i].v)} : i \in 1..Len(x.v)}
      [] x.t = "arr" ->
           UNION {{<<Itoa(i - 1)>> \o q : q \in Leaves(x.v[i])} : i \in 1..Len(x.v)}
      [] OTHER -> {<<>>}

IsPrefix(a, b) == Len(a) <= Len(b) /\ SubSeq(b, 1, Len(a)) = a

C8_NonArrayIterationTargetFails ==
    \A c \in Calls :
       (/\ c.out.mode = "iteration"
        /\ ~IsArray(Get(c.before, PrefixBeforePlaceholder(c.program.Variables[1])))) =>
          (c.out.st = "err" /\ c.out.doc = Nil)

\* C9 as stated: Execute fails for every program whose transformer is not
\* registered, in either mode, whatever the document.
C9_UnknownTransformerFails ==
    \A c \in Calls : c.program.Transformer \notin Registry => c.out.st = "err"

\* C10 as stated: whenever Execute returns an error it returns no document.
C10_ErrorComesWithoutDocument ==
    \A c \in Calls : c.out.st = "err" => c.out.doc = Nil

\* An argument of the quoted form '...'.
IsQuoted(arg) == Len(arg) >= 2 /\ arg[1] = "'" /\ arg[Len(arg)] = "'"

\* The value of an argument when quoted arguments are literals and all
\* others are field paths.
Resolved(arg, json) ==
    IF IsQuoted(arg) THEN Str(Slice(arg, 1, Len(arg) - 1)) ELSE Get(json, arg)

\* The results of a text transformer on the strings of its arguments.
OnStrings(name, s) ==
    CASE name = "uppercase" -> <<Str(ToUpper(s[1]))>>
      [] name = "concatenate" -> <<Str(JoinStr(Tail(s), s[1]))>>
      [] name = "split" -> [i \in 1..Len(SplitStr(s[1], s[2])) |-> Str(SplitStr(s[1], s[2])[i])]

\* The argument count the text transformer accepts.
TakesArgs(name, n) ==
    CASE name = "uppercase" -> n = 1
      [] name = "concatenate" -> n >= 3
      [] name = "split" -> n = 2
      [] OTHER -> FALSE

\* C11 as stated: in direct mode a quoted argument is a literal and any
\* other argument is a field path, whatever its position and whatever the
\* transformer: an unquoted argument naming an absent field makes Execute
\* fail, and otherwise the transformer works on the literals and the
\* resolved fields.
C11_QuotedArgumentsAreLiterals ==
    \A c \in Calls :
       LET args == c.program.Args
           name == c.program.Transformer
       IN (c.out.mode = "set" /\ TakesArgs(name, Len(args))) =>
             IF \E j \in 1..Len(args) :
                   ~IsQuoted(args[j]) /\ ~Exists(Get(c.before, args[j]))
             THEN c.out.st = "err"
             ELSE /\ Len(c.out.calls) = 1
                  /\ c.out.calls[1].err = NoError
                  /\ c.out.calls[1].res =
                        OnStrings(name, [j \in 1..Len(args) |->
                                            String(Resolved(args[j], c.before))])

(***************************************************************************)
(* Properties of the lexer and the parser.                                 *)
(***************************************************************************)
\* The consumer has read the whole token stream, up to EOF.
Drained == consumer = "NextToken" /\ result.st = "ok"

\* The number of tokens of the given types among the first n of toks.
CountOf(toks, n, types) == Cardinality({q \in 1..n : toks[q].Type \in types})

IsUnexpectedCharacter(tok) ==
    /\ tok.Type = ERROR
    /\ Len(tok.Literal) = Len(UnexpectedCharacter("x"))
    /\ SubSeq(tok.Literal, 1, 10) = SubSeq(UnexpectedCharacter("x"), 1, 10)

\* The text of the line the j-th token belongs to when every line ends with
\* its EOL token.
LineByEOL(toks, j) == ScanLines(source)[1 + CountOf(toks, j - 1, {EOL})]

\* C12 as stated: an ERROR token for an unexpected character names the
\* character at its position, and the lexer goes on with the rest of the
\* same line: further tokens of that line, all to the right of the bad
\* character, follow up to the line's EOL token, before EOF.
C12_LexerResumesAfterBadCharacter ==
    Drained =>
       \A j \in 1..Len(received) :
          IsUnexpectedCharacter(received[j]) =>
             /\ 1 + CountOf(received, j - 1, {EOL}) <= Len(ScanLines(source))
             /\ received[j].Literal =
                   UnexpectedCharacter(ByteSlice(LineByEOL(received, j),
                       received[j].Pos, received[j].Pos + 1)[1])
             /\ \E m \in (j + 1)..Len(received) :
                   /\ received[m].Type = EOL
                   /\ received[m].Pos = ByteLen(LineByEOL(received, j))
                   /\ \A q \in (j + 1)..(m - 1) :
                         /\ received[q].Type \notin {EOL, EOF}
                         /\ received[q].Pos > received[j].Pos

\* C13: at most one EOF token is ever sent and nothing is sent after it;
\* once the channel is closed exactly one EOF was sent, it is the last
\* token, and when every token has been delivered it is the last one
\* delivered.
C13_ExactlyOneFinalEOF ==
    /\ CountOf(produced, Len(produced), {EOF}) <= 1
    /\ \A j \in 1..Len(produced) : produced[j].Type = EOF => j = Len(produced)
    /\ l.closed =>
          /\ Len(produced) >= 1
          /\ produced[Len(produced)].Type = EOF
          /\ received = produced
    /\ Drained => received[Len(received)].Type = EOF

\* A source with a bad character and an unterminated string was lexed to
\* the end and the channel is closed.
C13_Witness ==
    /\ Drained
    /\ l.closed
    /\ CountOf(received, Len(received), {ERROR}) >= 2
    /\ CountOf(received, Len(received), {EOF}) = 1

\* C14 as stated: every input line yields exactly one EOL token, after the
\* other tokens of the line and before the tokens of the next line.
C14_OneEOLPerLine ==
    Drained =>
       CountOf(received, Len(received), {EOL}) = Len(ScanLines(source))

\* The number of lines the scanner has handed to the lexer.
LinesScanned == Len(ScanLines(source)) - Len(l.sc)

\* C15 as stated: the Line of a token is the 1-based index of the line it
\* was scanned from, and the Line of EOF is the number of lines plus one.
C15_LineIsIndexOfScannedLine ==
    l.pc = "send" =>
       IF l.out.Type = EOF /\ l.after = "close"
       THEN l.out.Line = Len(ScanLines(source)) + 1
       ELSE l.out.Line = LinesScanned

\* The line the j-th token was scanned from: a line ends with its EOL token
\* or with an ERROR token.
LineOf(toks, j) == 1 + CountOf(toks, j - 1, {EOL, ERROR})

\* Where the token before the j-th one ends in the line of the j-th one.
EndOfPrevious(toks, j) ==
    IF j > 1 /\ toks[j - 1].Type \notin {EOL, ERROR}
    THEN toks[j - 1].Pos + ByteLen(toks[j - 1].Literal)
    ELSE 0

IsBlank(text) == \A q \in 1..Len(text) : text[q] \in {" ", "\t"}

\* C16, for the token produced last (every token is the last one when it
\* is produced): in its own line, the Pos of a token is the byte offset where
\* its literal stands, only blanks lie between the end of the token before it
\* and Pos, the ERROR token of an unexpected character has the offset of
\* that character, and EOL has the length of the line.
C16_PosIsOffsetOfLiteralInLine ==
    (Len(produced) >= 1 /\ produced[Len(produced)].Type # EOF) =>
       LET j == Len(produced)
           tok == produced[Len(produced)]
           line == ScanLines(source)[LineOf(produced, Len(produced))]
           text == Append(line, "\n")
       IN /\ LineOf(produced, j) <= Len(ScanLines(source))
          /\ EndOfPrevious(produced, j) <= tok.Pos
          /\ tok.Pos < ByteLen(text)
          /\ IsBlank(ByteSlice(text, EndOfPrevious(produced, j), tok.Pos))
          /\ IF IsUnexpectedCharacter(tok)
             THEN tok.Literal = UnexpectedCharacter(text[RuneIndex(text, tok.Pos)])
             ELSE /\ tok.Pos + ByteLen(tok.Literal) <= ByteLen(text)
                  /\ ByteSlice(text, tok.Pos, tok.Pos + ByteLen(tok.Literal))
                        = tok.Literal
          /\ tok.Type = EOL => tok.Pos = ByteLen(line)

\* An identifier was lexed on a later line, after leading blanks.
C16_Witness ==
    \E j \in 1..Len(produced) :
       /\ produced[j].Type = IDENTIFIER
       /\ LineOf(produced, j) >= 2
       /\ produced[j].Pos >= 1

\* C17: the lexer has at most one token that was produced and not yet
\* received, it is blocked in its send while there is one, and the tokens
\* received are the tokens produced, in the same order.
C17_OneTokenInFlight ==
    /\ Len(received) <= Len(produced)
    /\ Len(produced) <= Len(received) + 1
    /\ received = SubSeq(produced, 1, Len(received))
    /\ Len(produced) > Len(received) =>
          (l.pc = "send" /\ l.out = produced[Len(produced)])

\* Two tokens were received and the lexer is blocked sending the third.
C17_Witness ==
    /\ Len(received) >= 2
    /\ Len(produced) = Len(received) + 1
    /\ l.pc = "send"

\* C18 as stated: when the parser has returned with a syntax error, the
\* lexer goroutine eventually terminates.
C18_LexerTerminatesAfterParserError ==
    [](((consumer \in {"Run", "RunAll"}) /\ result.st = "err")
          => <>(l.pc \in {"done", "panic"}))

\* The program Run has to return for the line SET v = name(a).
Parsed(v, name, a) ==
    result.st = "ok"
       /\ result.program = [Variables |-> v, Transformer |-> name, Args |-> a]

\* C19 as stated: for every line SET v1, .., vm = name(a1, .., an), m >= 1,
\* n >= 0, Run returns the program with these variables, this name and
\* these arguments, string literals with their quotes.
C19_RunReturnsTheProgramOfTheLine ==
    (consumer = "Run" /\ result.st # "more") =>
       \A v \in VariableLists : \A name \in Names : \A a \in ArgumentLists :
          source = SetLine(v, name, a, <<")">>) => Parsed(v, name, a)

\* C19 for transformer names made of ASCII letters only.
C19_RunReturnsTheProgramOfALetterName ==
    (consumer = "Run" /\ result.st # "more") =>
       \A v \in VariableLists : \A name \in Names : \A a \in ArgumentLists :
          (/\ source = SetLine(v, name, a, <<")">>)
           /\ \A j \in 1..Len(name) : name[j] \in Range(Lower) \cup Range(Upper))
             => Parsed(v, name, a)

\* Run has returned the program of a line with two variables and two
\* arguments, one of them a string literal.
C19_Witness ==
    /\ consumer = "Run"
    /\ result.st = "ok"
    /\ Len(result.program.Variables) = 2
    /\ result.program.Args = <<ArgumentAt(1), ArgumentAt(2)>>
    /\ source = SetLine(result.program.Variables, result.program.Transformer,
                        result.program.Args, <<")">>)

\* C20 as stated: when Run accepts, every comma of the tokens it has read
\* is followed by a further element of its list (an identifier or a
\* string), never by ')' or '='.
C20_CommaIsFollowedByAnElement ==
    (consumer = "Run" /\ result.st = "ok") =>
       \A j \in 1..(result.i - 1) :
          received[j].Type = COMMA =>
             (j + 1 <= Len(received)
                /\ received[j + 1].Type \in {IDENTIFIER, STRINGLIT})

\* The programs a finished Run or RunAll has returned.
Returned ==
    IF result.st # "ok" THEN <<>>
    ELSE IF consumer = "Run" THEN <<result.program>>
    ELSE IF consumer = "RunAll" THEN result.programs
    ELSE <<>>

OnlyLetters(name) ==
    \A j \in 1..Len(name) : name[j] \in Range(Lower) \cup Range(Upper)

\* C21: every program Run or RunAll returns has at least one variable and
\* a transformer that is not empty and made of the letters A-Z and a-z
\* only; when the token read as the transformer name is an identifier
\* holding any other character, the parse has failed with a syntax error
\* at the line and position of that token.
C21_ProgramsHaveVariablesAndALetterName ==
    /\ \A j \in 1..Len(Returned) :
          /\ Len(Returned[j].Variables) >= 1
          /\ Len(Returned[j].Transformer) >= 1
          /\ OnlyLetters(Returned[j].Transformer)
    /\ consumer \in {"Run", "RunAll"} =>
          \A j \in 2..Len(received) :
             (/\ received[j - 1].Type = OPERATOR
              /\ received[j].Type = IDENTIFIER
              /\ ~OnlyLetters(received[j].Literal))
                => /\ result.st = "err"
                   /\ result.line = received[j].Line
                   /\ result.pos = received[j].Pos
                   /\ j = Len(received)

\* RunAll has parsed a first line and failed on the transformer name "t1"
\* of the second.
C21_Witness ==
    /\ consumer = "RunAll"
    /\ result.st = "err"
    /\ result.line = 2
    /\ received[Len(received)].Literal = <<"t", "1">>
    /\ received[Len(received)].Pos = 8

\* C22 as stated: when RunAll accepts, the token after the closing
\* parenthesis of every program it has read is an EOL or the EOF, never the
\* SET of a further program on the same line.
C22_ProgramIsFollowedByEOLOrEOF ==
    (consumer = "RunAll" /\ result.st = "ok") =>
       \A j \in 1..(Len(received) - 1) :
          received[j].Type = RPAREN => received[j + 1].Type \in {EOL, EOF}

\* The tokens received that were scanned from line j.
TokensOfLine(j) == SelectSeq(received, LAMBDA t : t.Line = j)

\* C23 as stated: when RunAll succeeds it has stopped at the EOF token and
\* returns one program for each line of the input, the j-th program being
\* the one Run reads from the tokens of line j; when it fails it returns
\* the error and no program.
C23_RunAllReturnsOneProgramPerLine ==
    consumer = "RunAll" =>
       /\ result.st = "ok" =>
             /\ received[Len(received)].Type = EOF
             /\ Len(result.programs) = Len(ScanLines(source))
             /\ \A j \in 1..Len(result.programs) :
                   /\ Run(source, TokensOfLine(j)).st = "ok"
                   /\ Run(source, TokensOfLine(j)).program = result.programs[j]
       /\ result.st = "err" => "programs" \notin DOMAIN result

\* C24 as stated: RunAll on the empty input returns, without an error, a
\* list of no programs, and it returns a list of no programs for the empty
\* input only.
C24_EmptyInputGivesNoPrograms ==
    (consumer = "RunAll" /\ result.st # "more") =>
       /\ source = <<>> => (result.st = "ok" /\ result.programs = <<>>)
       /\ (result.st = "ok" /\ result.programs = <<>>) => source = <<>>

\* The messages of the parser's syntax errors.
Messages ==
    {"expected 'SET' keyword", "expected variable name",
     "unexpected token in variables", "expected operator '='",
     "expected transformer name",
     "expected transformer name to have only alphabets",
     "expected symbol 'LPAREN'", "expected argument (field or string)",
     "unexpected token in arguments"}

\* The token the parser has failed on: the one it received last.
Offending == received[Len(received)]

\* C25 as stated: every error of Run or RunAll is a message, " at line L,
\* position P", a line break, the whole text of line L of the input, a
\* line break, P blanks and "^", L and P being the Line and the Pos of the
\* offending token.
C25_ErrorIsMessageAndTwoLineDiagnostic ==
    (consumer \in {"Run", "RunAll"} /\ result.st = "err") =>
       /\ Offending.Line \in 1..Len(SplitStr(source, <<"\n">>))
       /\ \E message \in Messages :
             result.error =
                Diagnostic(message, Offending.Line, Offending.Pos,
                           SplitStr(source, <<"\n">>)[Offending.Line])

\* C26: RunAll never reads past an ERROR token: an ERROR token it has
\* received is the last token it received and RunAll has failed with a
\* syntax error at the line and position of that token (or it had failed
\* before, and the token was never received); and when RunAll succeeds the
\* lexer has delivered its whole stream and no token of it is an ERROR.
C26_ErrorTokenIsFatal ==
    consumer = "RunAll" =>
       /\ \A j \in 1..Len(received) :
             received[j].Type = ERROR =>
                /\ j = Len(received)
                /\ result.st = "err"
                /\ result.line = received[j].Line
                /\ result.pos = received[j].Pos
                /\ "programs" \notin DOMAIN result
       /\ result.st = "ok" =>
             /\ received = produced
             /\ received[Len(received)].Type = EOF
             /\ \A j \in 1..Len(produced) : produced[j].Type # ERROR

\* RunAll has read a whole program and failed on the ERROR token that
\* follows it on the line.
C26_Witness ==
    /\ consumer = "RunAll"
    /\ result.st = "err"
    /\ Len(received) >= 2
    /\ received[Len(received) - 1].Type = RPAREN
    /\ Offending.Type = ERROR
    /\ result.pos = Offending.Pos

(***************************************************************************)
(* Properties of the transformers.                                         *)
(***************************************************************************)
\* The segments split has to return for a call: the string value of the
\* field, split on the separator without its quotes.
Segments(c) ==
    SplitStr(String(Get(c.before, c.program.Args[1])),
             TrimQuotes(c.program.Args[2]))

\* A direct-mode call of split with two arguments, the first a field that
\* is present, and with plain paths as variables.
IsSplit(c) ==
    /\ c.out.mode = "set"
    /\ c.program.Transformer = "split"
    /\ Len(c.program.Args) = 2
    /\ Exists(Get(c.before, c.program.Args[1]))
    /\ \A i \in 1..Len(c.program.Variables) : IsSimple(c.program.Variables[i])

\* No later variable of the program names variables[i], a field above it
\* or a field below it.
WrittenOnce(variables, i) ==
    \A m \in (i + 1)..Len(variables) :
       /\ ~IsPrefix(SplitPath(variables[m]), SplitPath(variables[i]))
       /\ ~IsPrefix(SplitPath(variables[i]), SplitPath(variables[m]))

\* C27: a direct-mode split on a present field returns the segments of the
\* field's string value, in order, one result each; Execute succeeds only
\* when there are as many segments as declared variables, and then
\* variable i of the returned document holds segment i.
C27_SplitAssignsSegmentsToVariables ==
    \A c \in Calls :
       IsSplit(c) =>
          /\ Len(c.out.calls) = 1
          /\ c.out.calls[1].err = NoError
          /\ c.out.calls[1].res = [i \in 1..Len(Segments(c)) |-> Str(Segments(c)[i])]
          /\ c.out.st = "ok" =>
                /\ Len(Segments(c)) = Len(c.program.Variables)
                /\ \A i \in 1..Len(c.program.Variables) :
                      WrittenOnce(c.program.Variables, i) =>
                         Get(c.out.doc, c.program.Variables[i]) = Str(Segments(c)[i])
          /\ Len(Segments(c)) # Len(c.program.Variables) =>
                (c.out.st = "err" /\ c.out.doc = Nil)

\* A split of "a/b" into two variables has succeeded, and a split of it
\* into one variable has failed.
C27_Witness ==
    /\ \E c \in Calls :
          /\ IsSplit(c)
          /\ c.out.st = "ok"
          /\ Len(c.program.Variables) = 2
          /\ Get(c.out.doc, c.program.Variables[2]) = Str(<<"b">>)
    /\ \E c \in Calls :
          /\ IsSplit(c)
          /\ Len(Segments(c)) = 2
          /\ Len(c.program.Variables) = 1
          /\ c.out.st = "err"

\* The argument count a built-in transformer accepts.
ArgCountOK(name, n) ==
    CASE name = "uppercase" -> n = 1
      [] name = "concatenate" -> n >= 3
      [] name = "split" -> n = 2
      [] name = "bmi" -> n = 2

\* The arguments a built-in transformer reads as fields of the document.
FieldArgs(name, args) ==
    CASE name = "uppercase" -> args
      [] name = "concatenate" -> Tail(args)
      [] name = "split" -> <<args[1]>>
      [] name = "bmi" -> args

\* A field the call refers to is not in the document it runs on.
FieldAbsent(c) ==
    \E j \in 1..Len(FieldArgs(c.program.Transformer, c.program.Args)) :
       ~Exists(Get(c.before, FieldArgs(c.program.Transformer, c.program.Args)[j]))

\* C28: in direct mode a built-in transformer called with a wrong number
\* of arguments, or with a field that is absent from the document, returns
\* an error and no results, and Execute fails and returns no document.
C28_WrongArityOrAbsentFieldFails ==
    \A c \in Calls :
       (/\ c.out.mode = "set"
        /\ c.program.Transformer \in Registry
        /\ \/ ~ArgCountOK(c.program.Transformer, Len(c.program.Args))
           \/ FieldAbsent(c))
          => /\ Len(c.out.calls) = 1
             /\ c.out.calls[1].err # NoError
             /\ c.out.calls[1].res = <<>>
             /\ c.out.st = "err"
             /\ c.out.doc = Nil

\* A concatenate with a separator and one field has failed.
C28_Witness ==
    \E c \in Calls :
       /\ c.out.mode = "set"
       /\ c.program.Transformer = "concatenate"
       /\ Len(c.program.Args) = 2
       /\ ~FieldAbsent(c)
       /\ c.out.st = "err"
       /\ c.out.doc = Nil

\* A direct-mode call of bmi with two arguments.
IsBMI(c) ==
    /\ c.out.mode = "set"
    /\ c.program.Transformer = "bmi"
    /\ Len(c.program.Args) = 2

\* The values of the two arguments of a call of bmi, in hundredths when
\* they are numbers.
WeightOf(c) == Get(c.before, c.program.Args[1])
HeightOf(c) == Get(c.before, c.program.Args[2])

\* b, in hundredths, is weight / height^2 rounded to one decimal, a half
\* being rounded up.
IsRoundedQuotient(b, weight, height) ==
    /\ b % 10 = 0
    /\ (b - 5) * height * height <= 10000 * weight
    /\ 10000 * weight < (b + 5) * height * height

LastWriteTo(variables, i) ==
    CHOOSE m \in i..Len(variables) :
       /\ variables[m] = variables[i]
       /\ \A q \in (m + 1)..Len(variables) : variables[q] # variables[i]

\* variables[i] is a plain path, and every later variable that names it, a
\* field above it or a field below it, names it exactly.
OnlyRewritten(variables, i) ==
    /\ IsSimple(variables[i])
    /\ \A m \in (i + 1)..Len(variables) :
          (\/ IsPrefix(SplitPath(variables[m]), SplitPath(variables[i]))
           \/ IsPrefix(SplitPath(variables[i]), SplitPath(variables[m])))
             => variables[m] = variables[i]

\* C30: in direct mode the transformer is invoked once, with the declared
\* arguments, on the document as it was before the program's writes; when
\* Execute succeeds every result has been written, and a path named by
\* several variables holds the result of the last of them.
C30_DirectModeEvaluatesOnceThenWritesInOrder ==
    \A c \in Calls :
       (c.out.mode = "set" /\ c.program.Transformer \in Registry) =>
          /\ Len(c.out.calls) = 1
          /\ c.out.calls[1].args = c.program.Args
          /\ c.out.calls[1].res =
                Transform(c.program.Transformer, c.program.Args, c.before).res
          /\ c.out.st = "ok" =>
                \A i \in 1..Len(c.program.Variables) :
                   OnlyRewritten(c.program.Variables, i) =>
                      Get(c.out.doc, c.program.Variables[i]) =
                         c.out.calls[1].res[LastWriteTo(c.program.Variables, i)]

\* SET p, p = split(p, '/') on p = "a/b" has left p = "b": split saw the
\* p of before the writes, and the second write came last.
C30_Witness ==
    \E c \in Calls :
       /\ c.out.mode = "set"
       /\ c.program.Variables = << <<"p">>, <<"p">> >>
       /\ Get(c.before, <<"p">>) = Str(<<"a", "/", "b">>)
       /\ c.out.st = "ok"
       /\ Get(c.out.doc, <<"p">>) = Str(<<"b">>)

(***************************************************************************)
(* Properties of Execute.                                                  *)
(***************************************************************************)
\* Segment sequences a and b agree on their common length, a '#' standing
\* for any segment: one names the other, a field above it or a field
\* below it.
Overlap(a, b) ==
    \A j \in 1..(IF Len(a) < Len(b) THEN Len(a) ELSE Len(b)) :
       a[j] = b[j] \/ a[j] = <<"#">> \/ b[j] = <<"#">>

\* The leaf q lies at, above or below a path named by the variables.
IsNamed(variables, q) ==
    \E j \in 1..Len(variables) : Overlap(SplitPath(variables[j]), q)

\* C31: a successful direct-mode Execute leaves every leaf of the document
\* that is not at, above or below a path of the program's Variables as it
\* was, creates no leaf elsewhere, and keeps every member of the document
\* whose key begins with "_".
C31_DirectModeChangesOnlyNamedPaths ==
    \A c \in Calls :
       (c.out.mode = "set" /\ c.out.st = "ok") =>
          /\ \A q \in Leaves(c.before) \cup Leaves(c.out.doc) :
                ~IsNamed(c.program.Variables, q) =>
                   GetPath(c.out.doc, q) = GetPath(c.before, q)
          /\ \A j \in 1..Len(c.before.v) :
                HasPrefix(c.before.v[j].k, "_") =>
                   Exists(Get(c.out.doc, c.before.v[j].k))

\* A direct-mode Execute has succeeded on a document that held a member
\* "_t" and has written another field.
C31_Witness ==
    \E c \in Calls :
       /\ c.out.mode = "set"
       /\ c.out.st = "ok"
       /\ Exists(Get(c.before, <<"_", "t">>))
       /\ c.program.Variables = << <<"u">> >>
       /\ Get(c.out.doc, <<"_", "t">>) = Get(c.before, <<"_", "t">>)
       /\ c.out.doc # c.before

\* Argument lists to put in the place of the declared one: none, a field,
\* an absent field, a field and a literal.
OtherArgs ==
    {<<>>, << <<"n">> >>, << <<"z">> >>, << <<"p">>, Slash >>}

\* Outcome o is a failure when the call failed, and the document of the
\* call when the call succeeded.
SameOutcome(c, o) == o.st = c.out.st /\ o.doc = c.out.doc

\* C32: in iteration mode Execute gives the same outcome (the same
\* document, or a failure in both cases) for the program of the call and
\* for the same program with any other argument list.  (Stated of the
\* call made last; every call of a batch is the last one in some state.)
C32_IterationIgnoresDeclaredArgs ==
    (Len(trace) > 0 /\ trace[Len(trace)].out.mode = "iteration") =>
       \A args \in OtherArgs :
          SameOutcome(trace[Len(trace)],
                      Execute([trace[Len(trace)].program EXCEPT !.Args = args],
                              trace[Len(trace)].before, matching))

\* An iteration over a non-empty array, declared with one argument, has
\* succeeded and changed the document.
C32_Witness ==
    /\ Len(trace) > 0
    /\ trace[Len(trace)].out.mode = "iteration"
    /\ trace[Len(trace)].out.st = "ok"
    /\ Len(trace[Len(trace)].out.calls) >= 2
    /\ trace[Len(trace)].out.doc # trace[Len(trace)].before
    /\ trace[Len(trace)].program.Args \notin OtherArgs

\* C33: in iteration mode, when the transformer fails for an element after
\* the first, the elements before it had been transformed and Execute
\* returns the error and no document; a document comes back from an
\* iteration only with every element transformed, or untouched.
C33_FailedIterationReturnsNoDocument ==
    \A c \in Calls :
       IteratesArray(c) =>
          /\ \A i \in 2..Len(c.out.calls) :
                c.out.calls[i].err # NoError =>
                   /\ \A j \in 1..(i - 1) :
                         /\ c.out.calls[j].err = NoError
                         /\ Len(c.out.calls[j].res) >= 1
                   /\ i = Len(c.out.calls)
                   /\ c.out.st = "err"
                   /\ c.out.doc = Nil
          /\ c.out.doc # Nil =>
                \/ /\ c.out.st = "ok"
                   /\ Len(c.out.calls) =
                         Len(Get(c.before,
                                 PrefixBeforePlaceholder(c.program.Variables[1])).v)
                \/ c.out.doc = c.before

\* The iteration over e has transformed element 0 and failed on element
\* 1, which has no member n.
C33_Witness ==
    \E c \in Calls :
       /\ IteratesArray(c)
       /\ c.program.Variables[1] = <<"e", ".", "#", ".", "n">>
       /\ Len(c.out.calls) = 2
       /\ c.out.calls[1].res = <<Str(<<"X">>)>>
       /\ c.out.calls[2].err # NoError
       /\ c.out.st = "err"
       /\ c.out.doc = Nil

(***************************************************************************)
(* Further properties of the lexer and the parser.                         *)
(***************************************************************************)
\* The token produced last, the text of its line with the line break, and
\* what follows the first character of the token in that text.
LastToken == produced[Len(produced)]
LastText == Append(ScanLines(source)[LineOf(produced, Len(produced))], "\n")
AfterQuote == ByteSlice(LastText, LastToken.Pos + 1, ByteLen(LastText))

\* C34, for the token produced last: a token that starts at a quote is
\* one STRING token whose literal runs from that quote to the next quote
\* of the line, both included, blanks and symbols between them included,
\* and the lexer goes on with the line; when the line has no further
\* quote it is one ERROR token that runs to the end of the line, and the
\* lexer is done with the line.  A STRING token starts and ends with a
\* quote and holds neither another quote nor a line break.
C34_StringRunsToTheNextQuoteOfTheLine ==
    (/\ Len(produced) >= 1
     /\ LastToken.Type # EOF
     /\ LineOf(produced, Len(produced)) <= Len(ScanLines(source))) =>
       /\ (/\ ~IsUnexpectedCharacter(LastToken)
           /\ LastText[RuneIndex(LastText, LastToken.Pos)] = "'") =>
             IF Contains(AfterQuote, "'")
             THEN /\ LastToken.Type = STRINGLIT
                  /\ LastToken.Literal =
                        <<"'">> \o Slice(AfterQuote, 0, IndexOf(AfterQuote, "'") + 1)
                  /\ l.pc = "send" => l.after = "lexText"
             ELSE /\ LastToken.Type = ERROR
                  /\ LastToken.Literal = <<"'">> \o AfterQuote
                  /\ l.pc = "send" => l.after = "nil"
       /\ LastToken.Type = STRINGLIT =>
             /\ Len(LastToken.Literal) >= 2
             /\ LastToken.Literal[1] = "'"
             /\ LastToken.Literal[Len(LastToken.Literal)] = "'"
             /\ \A j \in 2..(Len(LastToken.Literal) - 1) :
                   LastToken.Literal[j] \notin {"'", "\n"}

\* The string ', ' with its comma and its blank has been lexed as one
\* token of four characters.
C34_Witness ==
    /\ Len(produced) >= 1
    /\ LastToken.Type = STRINGLIT
    /\ LastToken.Literal = <<"'", ",", " ", "'">>
    /\ LastToken.Pos > 0

\* The grammar of one program, SET IDENT (',' IDENT)* '=' NAME '(' [ARG
\* (',' ARG)*] ')', as an automaton over its tokens: the state reached
\* from state by token, "bad" when no program continues with the token.
\* Every state but "bad" has a continuation to "done".
GrammarStep(state, token) ==
    CASE state = "start" ->
           IF token.Type = KEYWORD /\ token.Literal = <<"S", "E", "T">>
           THEN "set" ELSE "bad"
      [] state \in {"set", "comma"} ->
           IF token.Type = IDENTIFIER THEN "variable" ELSE "bad"
      [] state = "variable" ->
           IF token.Type = COMMA THEN "comma"
           ELSE IF token.Type = OPERATOR /\ token.Literal = <<"=">> THEN "operator"
           ELSE "bad"
      [] state = "operator" ->
           IF token.Type = IDENTIFIER /\ OnlyLetters(token.Literal)
           THEN "name" ELSE "bad"
      [] state = "name" -> IF token.Type = LPAREN THEN "open" ELSE "bad"
      [] state = "open" ->
           IF token.Type \in {IDENTIFIER, STRINGLIT} THEN "argument"
           ELSE IF token.Type = RPAREN THEN "done" ELSE "bad"
      [] state = "argument" ->
           IF token.Type = COMMA THEN "separator"
           ELSE IF token.Type = RPAREN THEN "done" ELSE "bad"
      [] state = "separator" ->
           IF token.Type \in {IDENTIFIER, STRINGLIT} THEN "argument" ELSE "bad"
      [] OTHER -> "bad"

\* The state the grammar is in after the tokens toks[i..j].
RECURSIVE GrammarState(_, _, _)
GrammarState(toks, i, j) ==
    IF j < i THEN "start" ELSE GrammarStep(GrammarState(toks, i, j - 1), toks[j])

\* The index in received of the first token of the program the parser was
\* reading when it received its last token: the token after the closing
\* parenthesis of the program before it and after the EOL that follows it.
ProgramStart ==
    LET closed == {q \in 1..(Len(received) - 1) : received[q].Type = RPAREN}
        last == IF closed = {} THEN 0
                ELSE CHOOSE q \in closed : \A o \in closed : o <= q
    IN IF last > 0 /\ last + 1 < Len(received) /\ received[last + 1].Type = EOL
       THEN last + 2
       ELSE last + 1

\* C35: the token a syntax error is reported at, the one received last,
\* is the first token of the program being read that no program continues
\* with: the tokens of the program before it are the beginning of a
\* program, and the error carries the line and the position of that token,
\* which for a call without ')' is the EOL token at the end of the line
\* and for a variable list without '=' the token after the list.
C35_ErrorIsAtFirstTokenNoProgramContinuesWith ==
    (consumer \in {"Run", "RunAll"} /\ result.st = "err") =>
       /\ GrammarState(received, ProgramStart, Len(received) - 1) # "bad"
       /\ GrammarState(received, ProgramStart, Len(received)) = "bad"
       /\ result.line = Offending.Line
       /\ result.pos = Offending.Pos
       /\ (source \in Lines /\ Offending.Type = EOL) =>
             result.pos = ByteLen(source)
       /\ source \in MissingOperator => Len(received) = 3

\* Run has failed at the EOL of a call with two arguments and no ')'.
C35_Witness ==
    /\ consumer = "Run"
    /\ result.st = "err"
    /\ Offending.Type = EOL
    /\ Len(received) >= 2
    /\ received[Len(received) - 1].Literal = ArgumentAt(2)
    /\ result.pos = ByteLen(source)

\* The Parser object after the tokens it has received.
ParserNow == Drive(NewParser(consumer), received)

\* The tokens the calls of nextToken returned, in order.
Consumed(p) == SelectSeq(p.calls, LAMBDA c : c.call = "next")

\* In the calls of p the buffer never held two tokens, a call right after
\* a peekToken returned the token peeked and took nothing from the lexer,
\* and the j-th nextToken returned the j-th token of toks.
OneTokenOfLookahead(p, toks) ==
    /\ Len(p.buffer) <= 1
    /\ \A j \in 1..Len(p.calls) : p.calls[j].buffer <= 1
    /\ \A j \in 1..(Len(p.calls) - 1) :
          p.calls[j].call = "peek" =>
             /\ p.calls[j + 1].token = p.calls[j].token
             /\ p.calls[j + 1].read = p.calls[j].read
    /\ \A j \in 1..Len(Consumed(p)) : Consumed(p)[j].token = toks[j]
    /\ Len(Consumed(p)) = p.read - Len(p.buffer)

\* q is p after a peekToken: a second peekToken and then a nextToken
\* return the token of the first and take nothing more from the lexer.
PeekIsRepeatable(q, toks) ==
    /\ Len(q.buffer) = 1
    /\ peekToken(q, toks).token = q.token
    /\ peekToken(q, toks).read = q.read
    /\ peekToken(q, toks).buffer = q.buffer
    /\ nextToken(peekToken(q, toks), toks).token = q.token
    /\ nextToken(peekToken(q, toks), toks).read = q.read
    /\ nextToken(peekToken(q, toks), toks).buffer = <<>>

\* C36: the lookahead buffer of the parser never holds more than one
\* token; peekToken called again returns the same token and takes none
\* from the lexer, the nextToken after a peekToken returns the token
\* peeked, and the tokens the lexer sent reach the grammar through
\* nextToken in the order sent, each at most once.  The parser followed
\* call by call ends where Run or RunAll ends.
C36_LookaheadIsOneTokenInOrder ==
    consumer \in {"Run", "RunAll"} =>
       /\ OneTokenOfLookahead(ParserNow, received)
       /\ ParserNow.read = Len(received)
       /\ \A j \in 1..Len(received) : received[j] = produced[j]
       /\ \A n \in 0..(Len(received) - 1) :
             PeekIsRepeatable(
                peekToken(Drive(NewParser(consumer), SubSeq(received, 1, n)),
                          received), received)
       /\ result.st = (CASE ParserNow.at = "error" -> "err"
                         [] ParserNow.at = "return" -> "ok"
                         [] OTHER -> "more")

\* RunAll has returned its programs with the EOF token, peeked after the
\* EOL of the second line, still in the buffer, after a nextToken that
\* returned a token peeked before.
C36_Witness ==
    /\ consumer = "RunAll"
    /\ result.st = "ok"
    /\ Len(result.programs) = 2
    /\ Len(ParserNow.buffer) = 1
    /\ ParserNow.buffer[1].Type = EOF
    /\ \E j \in 1..(Len(ParserNow.calls) - 1) :
          /\ ParserNow.calls[j].call = "peek"
          /\ ParserNow.calls[j].buffer = 1
          /\ ParserNow.calls[j + 1].call = "next"
          /\ ParserNow.calls[j + 1].buffer = 0

\* C37 as stated: a call of RunAll returns programs or an error, it never
\* receives a token after the EOF token, and once it has returned programs
\* every token sent has been received and the lexer goroutine finishes
\* with the channel closed.
C37_RunAllTerminatesAndLexerFinishes ==
    /\ <>(consumer # "RunAll" \/ result.st \in {"ok", "err"})
    /\ [](consumer = "RunAll" =>
             \A j \in 1..(Len(received) - 1) : received[j].Type # EOF)
    /\ []((consumer = "RunAll" /\ result.st = "ok") =>
             /\ Len(received) = Len(produced)
             /\ <>(l.closed /\ l.pc = "done"))

\* C38 as stated: the lexer goroutine does not send on the token channel
\* once it has closed it: with the channel closed the goroutine has
\* finished, also when the scanner reports an error, and EOF is the last
\* token it sent.
C38_NoSendAfterClose ==
    l.closed =>
       /\ l.pc = "done"
       /\ produced[Len(produced)].Type = EOF
====
